---- MODULE Spec2Model ----
(***************************************************************************)
(* Model of martinbearman/llm-agent (deep-search day-1 app):               *)
(*   - the Redis sliding-window rate limiter  (src/server/rate-limit.ts)   *)
(*   - the chat endpoint POST with its daily request gate                  *)
(*     (src/app/api/chat/route.ts, src/server/db/queries.ts)               *)
(* Each await of the source is a point where other callers may run, so     *)
(* every handler is split into one action per await.                       *)
(***************************************************************************)
EXTENDS Integers, Sequences, FiniteSets, TLC

\* ------------------------------------------------------------------ bounds
MaxTicks == 3          \* the clock stops after this many ticks
MaxOps == 3            \* limiter calls started in one run
MaxFaults == 1         \* store faults (error replies, lost connections) in one run
MaxNow == 6            \* last millisecond of the clock when window keys are studied alone
MaxWindowMs == 3       \* largest windowMs when window keys are studied alone

\* ------------------------------------------------------- program constants
DEFAULT_KEY_PREFIX == "rate_limit"
DEFAULT_MAX_RETRIES == 3
MsPerSec == 1000

\* ------------------------------------------------------------ model domains
Callers == {"c1", "c2"}
Prefixes == {DEFAULT_KEY_PREFIX, "search"}
WindowSizes == {MsPerSec, MsPerSec + MsPerSec \div 2}
TickMs == MsPerSec \div 2
ShortWindow == TickMs   \* a window as short as one tick, for chains of retries
AllWindowSizes == WindowSizes \cup {ShortWindow}
MaxTime == MaxTicks * TickMs
Times == {i * TickMs : i \in 0..MaxTicks}
Nil == <<>>            \* redis null reply / missing key
NoTTL == 0 - 1            \* key without an expiry
StoreDown == 0 - 1        \* value of `faults` while the store is unreachable

Max(a, b) == IF a >= b THEN a ELSE b
\* faulty variant: the quotient is rounded down
Ceil_RoundsDown(a, b) == a \div b

\* Math.ceil(a / b) for a >= 0, b > 0
Ceil(a, b) == (a + b - 1) \div b

\* ------------------------------------------------------------ getWindowKey
\* faulty variant: the key is built without the window start
getWindowKey_KeyWithoutWindow(t, windowMs, keyPrefix) ==
    LET windowStart == (t \div windowMs) * windowMs
    IN  [key |-> <<keyPrefix, 0>>, windowStart |-> windowStart]

\* faulty variant: the window start is rounded up
getWindowKey_RoundsUp(t, windowMs, keyPrefix) ==
    LET windowStart == ((t + windowMs - 1) \div windowMs) * windowMs
    IN  [key |-> <<keyPrefix, windowStart>>, windowStart |-> windowStart]

\* faulty variant: the key carries the time of the call, not the window start
getWindowKey_KeyOfNow(t, windowMs, keyPrefix) ==
    LET windowStart == (t \div windowMs) * windowMs
    IN  [key |-> <<keyPrefix, t>>, windowStart |-> windowStart]

\* `${keyPrefix}:${windowStart}` is modelled as the pair <<keyPrefix, windowStart>>
getWindowKey(t, windowMs, keyPrefix) ==
    LET windowStart == (t \div windowMs) * windowMs
    IN  [key |-> <<keyPrefix, windowStart>>, windowStart |-> windowStart]

WindowStarts == {getWindowKey(t, w, DEFAULT_KEY_PREFIX).windowStart : t \in Times, w \in AllWindowSizes}
Keys == Prefixes \X WindowStarts

\* ------------------------------------------------- decimal strings of redis
\* a redis value is a decimal string, modelled as a sequence of digits
RECURSIVE parseInt(_)
parseInt(s) ==
    IF Len(s) = 0 THEN 0
    ELSE parseInt(SubSeq(s, 1, Len(s) - 1)) * 10 + s[Len(s)]

RECURSIVE ToDecimal(_)
ToDecimal(n) == IF n < 10 THEN <<n>> ELSE ToDecimal(n \div 10) \o <<n % 10>>

\* faulty variant: the counter is written, not incremented
RedisIncr_Overwrites(v) == ToDecimal(1)

\* INCR key: a missing key counts as 0; the reply is the new value
RedisIncr(v) == ToDecimal((IF v = Nil THEN 0 ELSE parseInt(v)) + 1)

\* the value of a key that was missing and has taken n INCRs
RECURSIVE AfterIncrs(_)
AfterIncrs(n) == IF n = 0 THEN Nil ELSE RedisIncr(AfterIncrs(n - 1))

\* EXPIRE key seconds: only an existing key gets the expiry
RedisExpire(v, old, t, seconds) == IF v = Nil THEN old ELSE t + seconds * MsPerSec

VARIABLES
    now,        \* Date.now(), ms
    store,      \* redis: key -> decimal string or Nil
    expireAt,   \* redis: key -> time the key expires at, or NoTTL
    faults,     \* store faults injected so far
    cfg,        \* per caller: the RateLimitConfig it calls with
    pc,         \* per caller: position inside the running call
    lk,         \* per caller: {key, windowStart} of the running call
    res,        \* per caller: the last RateLimitResult it was given
    rec,        \* per caller: pipeline results of its last recordRateLimit
    rt,         \* per caller: the retry closure that is executing
    last,       \* per caller: how its last call ended
    opsLeft,    \* calls that may still be started
    incrCount,  \* history: INCRs applied to each key
    okHits,     \* history: recordRateLimit calls that returned, per key and windowMs
    lastIncrAt, \* history: time of the last INCR per keyPrefix (-1: none)
    admits,     \* history: gate admissions per (keyPrefix, windowMs, windowStart)
    keyedAt     \* history: per caller, the clock reading of its KeyCompute

redisVars == <<store, expireAt>>
histVars == <<incrCount, okHits, lastIncrAt, admits, keyedAt>>
limVars == <<now, store, expireAt, faults, cfg, pc, lk, res, rec, rt, last, opsLeft,
             incrCount, okHits, lastIncrAt, admits, keyedAt>>

VARIABLES
    clock,        \* the database/server clock, in slots of a UTC day
    dailyLimit,   \* env.REQUESTS_PER_DAY_LIMIT
    requestLogs,  \* table request_logs: sequence of [userId, createdAt]
    chats,        \* table chats: id -> row or NoChat
    messages,     \* table messages: sequence of [chatId, id, role, order]
    rpc,          \* per request: position inside POST
    rin,          \* per request: session and body {isNewChat, chatId}
    ruser,        \* per request: `user` (line 79)
    rcount,       \* per request: `requestCount` (line 128)
    up,           \* per request: which upsertChat call is running
    outcome,      \* per request: the response POST gave
    loop,         \* per request: state of the agent loop started by streamText
    steps,        \* per request: steps (model calls) the loop has made
    toolTurnsLeft,\* tool-calling turns the engine may still ask for
    hits,         \* history: request-log rows inserted by each request
    touched       \* history: has the request written to chats or messages

VARIABLES
    rawMessages,  \* body.messages, then response.messages too, as they arrived
    handed        \* the list upsertChat is called with

routeVars == <<clock, dailyLimit, requestLogs, chats, messages, rpc, rin, ruser, rcount,
               up, outcome, loop, steps, toolTurnsLeft, hits, touched,
               rawMessages, handed>>

VARIABLES
    budget,       \* k of stopWhen: stepCountIs(k) of the running loop
    agent,        \* state of the loop: "Reasoning", "ToolCall", "Done", "Aborted"
    stepCount,    \* steps the loop has made
    context,      \* the messages the next model call is given
    calls,        \* the tool invocations of the current step
    modelCalls,   \* history: model calls started
    toolStarts,   \* history: tool invocations started
    aborted,      \* the cancellation signal has fired
    impl,         \* which scrapePages.execute is running
    urls,         \* the urls the running scrapePages was called with
    fetch,        \* per position of urls: the fetch of that url
    order,        \* positions of urls in the order their fetches completed
    crawl,        \* the promise crawlMultipleUrls returned
    out,          \* what scrapePages.execute gave back
    search        \* the searchSerper request of a running searchWeb

loopVars == <<budget, agent, stepCount, context, calls, modelCalls, toolStarts>>
scrapeVars == <<impl, urls, fetch, order, crawl, out, search>>
agentVars == <<loopVars, aborted, scrapeVars>>

vars == <<limVars, routeVars, agentVars>>

\* ---------------------------------------------------------- checkRateLimit
\* faulty variant: the limit itself is still allowed (<= for <)
NormalResult_AllowsAtLimit(currentCount, maxRequests, windowMs, windowStart) ==
    LET count == IF currentCount # Nil THEN parseInt(currentCount) ELSE 0
    IN  [valid       |-> TRUE,
         allowed     |-> count <= maxRequests,
         remaining   |-> Max(0, maxRequests - count),
         resetTime   |-> windowStart + windowMs,
         totalHits   |-> count,
         failOpen    |-> FALSE,
         retryCount  |-> 0,
         windowStart |-> windowStart]

\* faulty variant: remaining already counts the request being checked
NormalResult_RemainingAfterThis(currentCount, maxRequests, windowMs, windowStart) ==
    LET count == IF currentCount # Nil THEN parseInt(currentCount) ELSE 0
    IN  [valid       |-> TRUE,
         allowed     |-> count < maxRequests,
         remaining   |-> Max(0, maxRequests - count - 1),
         resetTime   |-> windowStart + windowMs,
         totalHits   |-> count,
         failOpen    |-> FALSE,
         retryCount  |-> 0,
         windowStart |-> windowStart]

\* faulty variant: the catch block fails closed
FailOpenResult_FailsClosed(maxRequests, windowMs, windowStart) ==
    [valid       |-> TRUE,
     allowed     |-> FALSE,
     remaining   |-> 0,
     resetTime   |-> windowStart + windowMs,
     totalHits   |-> 0,
     failOpen    |-> TRUE,
     retryCount  |-> 0,
     windowStart |-> windowStart]

\* faulty variant: remaining is not floored at 0
NormalResult_NoFloor(currentCount, maxRequests, windowMs, windowStart) ==
    LET count == IF currentCount # Nil THEN parseInt(currentCount) ELSE 0
    IN  [valid       |-> TRUE,
         allowed     |-> count < maxRequests,
         remaining   |-> maxRequests - count,
         resetTime   |-> windowStart + windowMs,
         totalHits   |-> count,
         failOpen    |-> FALSE,
         retryCount  |-> 0,
         windowStart |-> windowStart]

\* the result built in the try block (lines 82-123)
NormalResult(currentCount, maxRequests, windowMs, windowStart) ==
    LET count == IF currentCount # Nil THEN parseInt(currentCount) ELSE 0
    IN  [valid       |-> TRUE,
         allowed     |-> count < maxRequests,
         remaining   |-> Max(0, maxRequests - count),
         resetTime   |-> windowStart + windowMs,
         totalHits   |-> count,
         failOpen    |-> FALSE,
         retryCount  |-> 0,
         windowStart |-> windowStart]

\* the result built in the catch block (lines 124-138); its retry is `async () => true`
FailOpenResult(maxRequests, windowMs, windowStart) ==
    [valid       |-> TRUE,
     allowed     |-> TRUE,
     remaining   |-> maxRequests - 1,
     resetTime   |-> windowStart + windowMs,
     totalHits   |-> 0,
     failOpen    |-> TRUE,
     retryCount  |-> 0,
     windowStart |-> windowStart]

NoResult ==
    [valid |-> FALSE, allowed |-> FALSE, remaining |-> 0, resetTime |-> 0,
     totalHits |-> 0, failOpen |-> FALSE, retryCount |-> 0, windowStart |-> 0]

\* what `await redis.get(key)` and the lines after it produce for caller c
CheckResult(c, getThrows) ==
    IF getThrows
    THEN FailOpenResult(cfg[c].maxRequests, cfg[c].windowMs, lk[c].windowStart)
    ELSE NormalResult(store[lk[c].key], cfg[c].maxRequests, cfg[c].windowMs,
                      lk[c].windowStart)

NoKey == getWindowKey(0, MsPerSec, DEFAULT_KEY_PREFIX)
NoRec == [isNull |-> FALSE, incrErr |-> FALSE, expireErr |-> FALSE, gate |-> FALSE]
NoRt == [resetTime |-> 0, depth |-> 0, retryCount |-> 0]

LimiterConfig(maxRequests, windowMs, maxRetries) ==
    [maxRequests |-> maxRequests, windowMs |-> windowMs,
     keyPrefix |-> DEFAULT_KEY_PREFIX, maxRetries |-> maxRetries]

\* the limiter before any call: an empty store, callers idle with the configs of one
\* of `cfgs`, `ops` calls to come
LimStartWith(cfgs, ops, faults0) ==
    /\ now = 0
    /\ store = [k \in Keys |-> Nil]
    /\ expireAt = [k \in Keys |-> NoTTL]
    /\ faults = faults0
    /\ cfg \in cfgs
    /\ pc = [c \in Callers |-> "idle"]
    /\ lk = [c \in Callers |-> NoKey]
    /\ res = [c \in Callers |-> NoResult]
    /\ rec = [c \in Callers |-> NoRec]
    /\ rt = [c \in Callers |-> NoRt]
    /\ last = [c \in Callers |-> "none"]
    /\ opsLeft = ops
    /\ incrCount = [k \in Keys |-> 0]
    /\ okHits = [k \in Keys \X AllWindowSizes |-> 0]
    /\ lastIncrAt = [p \in Prefixes |-> -1]
    /\ keyedAt = [c \in Callers |-> 0]
    /\ admits = [w \in Prefixes \X AllWindowSizes \X WindowStarts |-> 0]

\* all callers use one limiter
LimStart(maxRequests, windows, retries, ops, faults0) ==
    LimStartWith({[c \in Callers |-> LimiterConfig(maxRequests, w, n)] :
                     w \in windows, n \in retries}, ops, faults0)

\* both callers use one limiter with maxRequests 1 and call it in any order
LimInit == LimStart(1, WindowSizes, {1}, MaxOps, 0)

\* the limiter left alone
LimIdle == LimStart(1, {MsPerSec}, {1}, 0, 0)

\* a store operation fails (f) only while the fault budget lasts; while the store is
\* unreachable every operation fails
Fault(f) ==
    IF faults = StoreDown
    THEN /\ f
         /\ faults' = faults
    ELSE /\ f => faults < MaxFaults
         /\ faults' = IF f THEN faults + 1 ELSE faults

\* Date.now() advances; redis drops the keys whose expiry has been reached
Tick ==
    /\ now < MaxTime
    /\ now' = now + TickMs
    /\ store' = [k \in Keys |->
                    IF expireAt[k] # NoTTL /\ expireAt[k] <= now' THEN Nil ELSE store[k]]
    /\ expireAt' = [k \in Keys |->
                    IF expireAt[k] # NoTTL /\ expireAt[k] <= now' THEN NoTTL ELSE expireAt[k]]
    /\ UNCHANGED <<faults, cfg, pc, lk, res, rec, rt, last, opsLeft, histVars,
                   routeVars, agentVars>>

\* checkRateLimit, lines 70-79: getWindowKey reads the clock
CheckBegin(c) ==
    /\ pc[c] = "idle" /\ opsLeft > 0
    /\ opsLeft' = opsLeft - 1
    /\ lk' = [lk EXCEPT ![c] = getWindowKey(now, cfg[c].windowMs, cfg[c].keyPrefix)]
    /\ rec' = [rec EXCEPT ![c] = NoRec]
    /\ last' = [last EXCEPT ![c] = "running"]
    /\ pc' = [pc EXCEPT ![c] = "chk_get"]
    /\ UNCHANGED <<now, redisVars, faults, cfg, res, rt, histVars,
                   routeVars, agentVars>>

\* faulty variant: the check counts itself as a hit
CheckGet_Counts(c) ==
    /\ pc[c] = "chk_get"
    /\ \E getThrows \in BOOLEAN :
          /\ Fault(getThrows)
          /\ res' = [res EXCEPT ![c] = CheckResult(c, getThrows)]
    /\ store' = [store EXCEPT ![lk[c].key] = RedisIncr(@)]
    /\ last' = [last EXCEPT ![c] = "checked"]
    /\ lk' = [lk EXCEPT ![c] = NoKey]
    /\ pc' = [pc EXCEPT ![c] = "idle"]
    /\ UNCHANGED <<now, expireAt, cfg, rec, rt, opsLeft, histVars,
                   routeVars, agentVars>>

\* checkRateLimit, lines 81-138: the read returns, or throws and the check fails open
CheckGet(c) ==
    /\ pc[c] = "chk_get"
    /\ \E getThrows \in BOOLEAN :
          /\ Fault(getThrows)
          /\ res' = [res EXCEPT ![c] = CheckResult(c, getThrows)]
    /\ last' = [last EXCEPT ![c] = "checked"]
    /\ lk' = [lk EXCEPT ![c] = NoKey]
    /\ pc' = [pc EXCEPT ![c] = "idle"]
    /\ UNCHANGED <<now, redisVars, cfg, rec, rt, opsLeft, histVars,
                   routeVars, agentVars>>

\* ---------------------------------------------------------- recordRateLimit
\* faulty variant: only the missing result is checked, not the increment's error
RecordRaises_IgnoresIncrError(results) == results.isNull

\* lines 51-58: which pipeline results make recordRateLimit throw
RecordRaises(results) == results.isNull \/ results.incrErr

\* recordRateLimit, lines 35-42: getWindowKey reads the clock.  The call is a gate
\* admission when it directly follows a check of this caller that allowed on a read
\* that succeeded.
RecordBegin(c) ==
    /\ pc[c] = "idle" /\ opsLeft > 0
    /\ opsLeft' = opsLeft - 1
    /\ lk' = [lk EXCEPT ![c] = getWindowKey(now, cfg[c].windowMs, cfg[c].keyPrefix)]
    /\ rec' = [rec EXCEPT ![c] =
                  [NoRec EXCEPT !.gate = /\ last[c] = "checked"
                                         /\ res[c].allowed
                                         /\ ~res[c].failOpen]]
    /\ last' = [last EXCEPT ![c] = "running"]
    /\ pc' = [pc EXCEPT ![c] = "rec_incr"]
    /\ UNCHANGED <<now, redisVars, faults, cfg, res, rt, histVars,
                   routeVars, agentVars>>

\* line 46 as the server runs it: INCR is applied, or replies with an error
RecIncr(c) ==
    /\ pc[c] = "rec_incr"
    /\ \E incrErr \in BOOLEAN :
        /\ Fault(incrErr)
        /\ IF incrErr
           THEN /\ rec' = [rec EXCEPT ![c].incrErr = TRUE]
                /\ UNCHANGED <<store, incrCount, lastIncrAt>>
           ELSE /\ store' = [store EXCEPT ![lk[c].key] = RedisIncr(@)]
                /\ incrCount' = [incrCount EXCEPT ![lk[c].key] = @ + 1]
                /\ lastIncrAt' = [lastIncrAt EXCEPT ![cfg[c].keyPrefix] = now]
                /\ UNCHANGED rec
    /\ pc' = [pc EXCEPT ![c] = "rec_expire"]
    /\ UNCHANGED <<now, expireAt, cfg, lk, res, rt, last, opsLeft, okHits, admits, keyedAt,
                   routeVars, agentVars>>

\* line 47 as the server runs it: EXPIRE key ceil(windowMs/1000), or an error reply;
\* then lines 49-58: exec() resolves (possibly with null) and the results are inspected
RecExpire(c) ==
    /\ pc[c] = "rec_expire"
    /\ \E expireErr \in BOOLEAN, isNull \in BOOLEAN :
        LET results == [rec[c] EXCEPT !.expireErr = expireErr, !.isNull = isNull]
            returned == ~RecordRaises(results)
            win == <<cfg[c].keyPrefix, cfg[c].windowMs, res[c].windowStart>>
        IN  /\ ~(expireErr /\ isNull)
            /\ Fault(expireErr \/ isNull)
            /\ expireAt' = IF expireErr THEN expireAt
                           ELSE [expireAt EXCEPT ![lk[c].key] =
                                   RedisExpire(store[lk[c].key], @, now,
                                               Ceil(cfg[c].windowMs, MsPerSec))]
            /\ rec' = [rec EXCEPT ![c] = results]
            /\ last' = [last EXCEPT ![c] = IF returned THEN "rec_returned" ELSE "rec_threw"]
            /\ okHits' = IF returned
                         THEN [okHits EXCEPT ![<<lk[c].key, cfg[c].windowMs>>] = @ + 1]
                         ELSE okHits
            /\ admits' = IF returned /\ rec[c].gate
                         THEN [admits EXCEPT ![win] = @ + 1]
                         ELSE admits
    /\ lk' = [lk EXCEPT ![c] = NoKey]
    /\ pc' = [pc EXCEPT ![c] = "idle"]
    /\ UNCHANGED <<now, store, cfg, res, rt, opsLeft, incrCount, lastIncrAt, keyedAt,
                   routeVars, agentVars>>

\* lines 49, 59-67: exec() rejects (connection lost) with none or some of the
\* commands applied; the catch logs and rethrows
RecAbort(c) ==
    /\ pc[c] \in {"rec_incr", "rec_expire"}
    /\ Fault(TRUE)
    /\ last' = [last EXCEPT ![c] = "rec_threw"]
    /\ lk' = [lk EXCEPT ![c] = NoKey]
    /\ pc' = [pc EXCEPT ![c] = "idle"]
    /\ UNCHANGED <<now, redisVars, cfg, res, rec, rt, opsLeft, histVars,
                   routeVars, agentVars>>

\* -------------------------------------------------------------------- retry
\* faulty variant: the re-check is started at once, without waiting for resetTime
RetryEnter_NoWait(c, resetTime, depth) ==
    /\ rt' = [rt EXCEPT ![c] = [resetTime |-> resetTime, depth |-> depth,
                                 retryCount |-> IF depth = 0 THEN res[c].retryCount ELSE 0]]
    /\ pc' = [pc EXCEPT ![c] = "rt_get"]
    /\ lk' = [lk EXCEPT ![c] = getWindowKey(now, cfg[c].windowMs, cfg[c].keyPrefix)]

\* lines 92-98 of a closure whose `allowed` is false and whose resetTime is given:
\* sleep when resetTime is ahead, else go on to the re-check (getWindowKey, line 76)
RetryEnter(c, resetTime, depth) ==
    /\ rt' = [rt EXCEPT ![c] = [resetTime |-> resetTime, depth |-> depth,
                                 retryCount |-> IF depth = 0 THEN res[c].retryCount ELSE 0]]
    /\ IF resetTime - now > 0
       THEN /\ pc' = [pc EXCEPT ![c] = "rt_sleep"]
            /\ UNCHANGED lk
       ELSE /\ pc' = [pc EXCEPT ![c] = "rt_get"]
            /\ lk' = [lk EXCEPT ![c] =
                         getWindowKey(now, cfg[c].windowMs, cfg[c].keyPrefix)]

\* faulty variant: only the retry of a fail-open result resolves at once
RetryIsNoop_OnlyFailOpen(result) == result.failOpen

\* lines 92, 114 and line 136: the retry of a result that allowed, and the retry of a
\* fail-open result, resolve true without doing anything
RetryIsNoop(result) == result.failOpen \/ result.allowed

\* result.retry() called by the holder of the result (lines 91-115, and line 136)
RetryBegin(c) ==
    /\ pc[c] = "idle" /\ opsLeft > 0 /\ res[c].valid
    /\ opsLeft' = opsLeft - 1
    /\ rec' = [rec EXCEPT ![c] = NoRec]
    /\ IF RetryIsNoop(res[c])
       THEN /\ last' = [last EXCEPT ![c] = "retry_true"]
            /\ UNCHANGED <<pc, lk, rt>>
       ELSE /\ RetryEnter(c, res[c].resetTime, 0)
            /\ last' = [last EXCEPT ![c] = "retrying"]
    /\ UNCHANGED <<now, redisVars, faults, cfg, res, histVars,
                   routeVars, agentVars>>

\* line 95: the timer fires at or after resetTime; line 98 starts the re-check
RetryWake(c) ==
    /\ pc[c] = "rt_sleep"
    /\ now >= rt[c].resetTime
    /\ lk' = [lk EXCEPT ![c] = getWindowKey(now, cfg[c].windowMs, cfg[c].keyPrefix)]
    /\ pc' = [pc EXCEPT ![c] = "rt_get"]
    /\ UNCHANGED <<now, redisVars, faults, cfg, res, rec, rt, last, opsLeft, histVars,
                   routeVars, agentVars>>

\* lines 98-112: the re-check's read returns; resolve, or recurse into the retry of
\* the new result, whose retryCount is its own
RetryGet(c) ==
    /\ pc[c] = "rt_get"
    /\ \E getThrows \in BOOLEAN :
        LET retryResult == CheckResult(c, getThrows)
        IN  /\ Fault(getThrows)
            /\ IF retryResult.allowed
               THEN /\ last' = [last EXCEPT ![c] = "retry_true"]
                    /\ pc' = [pc EXCEPT ![c] = "idle"]
                    /\ lk' = [lk EXCEPT ![c] = NoKey]
                    /\ rt' = [rt EXCEPT ![c] = NoRt]
                    /\ UNCHANGED res
               ELSE IF rt[c].retryCount >= cfg[c].maxRetries
               THEN /\ last' = [last EXCEPT ![c] = "retry_false"]
                    /\ pc' = [pc EXCEPT ![c] = "idle"]
                    /\ lk' = [lk EXCEPT ![c] = NoKey]
                    /\ rt' = [rt EXCEPT ![c] = NoRt]
                    /\ UNCHANGED res
               ELSE /\ res' = IF rt[c].depth = 0
                              THEN [res EXCEPT ![c].retryCount = @ + 1]
                              ELSE res
                    /\ RetryEnter(c, retryResult.resetTime, rt[c].depth + 1)
                    /\ UNCHANGED last
    /\ UNCHANGED <<now, redisVars, cfg, rec, opsLeft, histVars,
                   routeVars, agentVars>>

\* =============================================================== chat route
\* -------------------------------------------------------------- bounds, data
MaxLimit == 1          \* largest REQUESTS_PER_DAY_LIMIT tried
MaxClock == 2          \* the server clock stops at this slot
SlotsPerDay == 2       \* clock slots in one UTC day
MaxToolTurns == 1      \* tool-calling turns the engine asks for in one run
stepLimit == 10        \* stopWhen: stepCountIs(10)

Requests == {"r1", "r2"}
NoSession == "-"
Sessions == {NoSession, "alice", "root", "ghost"}
ChatIds == {"k1"}
\* table users: alice is an ordinary user, root an admin; "ghost" has no row
Users == {[id |-> "alice", isAdmin |-> FALSE], [id |-> "root", isAdmin |-> TRUE]}
NoUser == [id |-> "-", isAdmin |-> FALSE]
NoChat == [userId |-> "-", updatedAt |-> 0]
NoInput == [session |-> NoSession, isNewChat |-> FALSE, chatId |-> "k1"]

\* body.messages after normalizeMessage, and response.messages of the finished stream
Incoming(r) == <<[id |-> r, role |-> "user"]>>
Response(r) == <<[id |-> r, role |-> "assistant"]>>

appendResponseMessages(msgs, responseMessages) == msgs \o responseMessages

\* --------------------------------------------------------- normalizeMessage
MaxMsgs == 1           \* longest body.messages tried

\* a JavaScript value is a record tagged with its type: undefined, null, a string
\* (its characters) or an array (its items)
\* faulty variant: the fallback leaves parts as it was
normalizeMessage_NoFallback(message) ==
    IF message.parts.type = "array" /\ Len(message.parts.items) > 0
    THEN message
    ELSE LET content == message.content
         IN  IF /\ content.type = "string"
                /\ \E i \in DOMAIN content.chars : content.chars[i] # " "
             THEN [message EXCEPT !.parts =
                      [type |-> "array",
                       items |-> <<[type |-> "text", text |-> content]>>]]
             ELSE IF content.type = "array" /\ Len(content.items) > 0
             THEN [message EXCEPT !.parts = content]
             ELSE message

\* route.ts lines 35-69; content.trim().length > 0 says some character is no blank
normalizeMessage(message) ==
    IF message.parts.type = "array" /\ Len(message.parts.items) > 0
    THEN message
    ELSE LET content == message.content
         IN  IF /\ content.type = "string"
                /\ \E i \in DOMAIN content.chars : content.chars[i] # " "
             THEN [message EXCEPT !.parts =
                      [type |-> "array",
                       items |-> <<[type |-> "text", text |-> content]>>]]
             ELSE IF content.type = "array" /\ Len(content.items) > 0
             THEN [message EXCEPT !.parts = content]
             ELSE [message EXCEPT !.parts = [type |-> "array", items |-> <<>>]]

\* lines 92-96: the body arrives, messages = rawMessages.map(normalizeMessage); this
\* is the list the first upsertChat is given
NormReceive ==
    /\ rawMessages = <<>>
    /\ \E n \in 1..MaxMsgs :
       \E body \in [1..n ->
                      [id : {"m"}, role : {"user"},
                       parts : {[type |-> "undefined"], [type |-> "null"],
                                [type |-> "array", items |-> <<>>],
                                [type |-> "array",
                                 items |-> <<[type |-> "text",
                                              text |-> [type |-> "string",
                                                        chars |-> <<"p">>]]>>]},
                       content : {[type |-> "undefined"], [type |-> "null"],
                                  [type |-> "string", chars |-> <<>>],
                                  [type |-> "string", chars |-> <<" ">>],
                                  [type |-> "string", chars |-> <<" ", "c">>],
                                  [type |-> "array", items |-> <<>>],
                                  [type |-> "array",
                                   items |-> <<[type |-> "text",
                                                text |-> [type |-> "string",
                                                          chars |-> <<"c">>]]>>]}]] :
          /\ rawMessages' = body
          /\ handed' = [i \in 1..n |-> normalizeMessage(body[i])]
    /\ UNCHANGED <<clock, dailyLimit, requestLogs, chats, messages, rpc, rin, ruser, rcount,
                   up, outcome, loop, steps, toolTurnsLeft, hits, touched,
                   limVars, agentVars>>

\* lines 238-261: onFinish normalizes response.messages, appends them to `messages`
\* and gives the result to upsertChat
NormFinish ==
    /\ Len(rawMessages) \in 1..MaxMsgs
    /\ \E message \in
             [id : {"a"}, role : {"assistant"},
              parts : {[type |-> "undefined"], [type |-> "null"],
                       [type |-> "array", items |-> <<>>],
                       [type |-> "array",
                        items |-> <<[type |-> "text",
                                     text |-> [type |-> "string", chars |-> <<"p">>]]>>]},
              content : {[type |-> "undefined"],
                         [type |-> "string", chars |-> <<" ">>],
                         [type |-> "string", chars |-> <<"c", " ">>],
                         [type |-> "array", items |-> <<>>],
                         [type |-> "array",
                          items |-> <<[type |-> "tool-call",
                                       text |-> [type |-> "string",
                                                 chars |-> <<"c">>]]>>]}] :
          LET responseMessages == <<normalizeMessage(message)>>
          IN  /\ rawMessages' = Append(rawMessages, message)
              /\ handed' = appendResponseMessages(handed, responseMessages)
    /\ UNCHANGED <<clock, dailyLimit, requestLogs, chats, messages, rpc, rin, ruser, rcount,
                   up, outcome, loop, steps, toolTurnsLeft, hits, touched,
                   limVars, agentVars>>

\* ------------------------------------------------------------------ queries
getDayBounds(date) ==
    LET start == (date \div SlotsPerDay) * SlotsPerDay
    IN  [start |-> start, end |-> start + SlotsPerDay]

getUserById(userId) ==
    IF \E u \in Users : u.id = userId
    THEN CHOOSE u \in Users : u.id = userId
    ELSE NoUser

\* faulty variant: logs of every day are counted
getDailyRequestCount_AnyDay(logs, userId, date) ==
    Cardinality({i \in 1..Len(logs) : logs[i].userId = userId})

getDailyRequestCount(logs, userId, date) ==
    LET b == getDayBounds(date)
    IN  Cardinality({i \in 1..Len(logs) :
                        /\ logs[i].userId = userId
                        /\ logs[i].createdAt >= b.start
                        /\ logs[i].createdAt < b.end})

\* faulty variant: the request is logged twice
insertRequestLog_Twice(logs, userId, t) ==
    logs \o <<[userId |-> userId, createdAt |-> t],
              [userId |-> userId, createdAt |-> t]>>

\* createdAt is filled by the database with its clock
insertRequestLog(logs, userId, t) ==
    Append(logs, [userId |-> userId, createdAt |-> t])

\* rows upsertChat inserts for a message list (lines 93-101)
MessageRows(chatId, list) ==
    [i \in 1..Len(list) |->
        [chatId |-> chatId, id |-> list[i].id, role |-> list[i].role, order |-> i - 1]]

\* getChat (lines 105-130): the chat with this id AND this owner, its messages ordered
\* by `order` (rows of equal order in table order); null when there is no such chat
getChat(chatTable, messageTable, chatId, userId) ==
    LET chat == chatTable[chatId]
        rows == SelectSeq(messageTable, LAMBDA m : m.chatId = chatId)
        rank(i) == Cardinality({h \in 1..Len(rows) :
                                   \/ rows[h].order < rows[i].order
                                   \/ rows[h].order = rows[i].order /\ h < i}) + 1
        ordered == [j \in 1..Len(rows) |-> rows[CHOOSE i \in 1..Len(rows) : rank(i) = j]]
    IN  IF chat = NoChat \/ chat.userId # userId
        THEN [isNull |-> TRUE]
        ELSE [isNull |-> FALSE, userId |-> chat.userId, updatedAt |-> chat.updatedAt,
              messages |-> [j \in 1..Len(rows) |->
                              [id |-> ordered[j].id, role |-> ordered[j].role]]]

\* -------------------------------------------------------------------- POST
\* faulty variant: the request is logged first and counted afterwards
POSTFlow_LogThenCount(stage, x) ==
    CASE stage = "auth" ->
            IF x.session = NoSession THEN "r401" ELSE "getUser"
      [] stage = "getUser" ->
            IF x.user = NoUser THEN "r401" ELSE "insert"
      [] stage = "insert" ->
            IF ~x.user.isAdmin /\ x.dailyLimit > 0 THEN "count"
            ELSE IF x.isNewChat THEN "upsert" ELSE "stream"
      [] stage = "count" ->
            IF x.requestCount > x.dailyLimit THEN "r429"
            ELSE IF x.isNewChat THEN "upsert" ELSE "stream"

\* faulty variant: a new chat is not saved before the stream starts
POSTFlow_NoFirstSave(stage, x) ==
    CASE stage = "auth" ->
            IF x.session = NoSession THEN "r401" ELSE "getUser"
      [] stage = "getUser" ->
            IF x.user = NoUser THEN "r401"
            ELSE IF ~x.user.isAdmin /\ x.dailyLimit > 0 THEN "count"
            ELSE "insert"
      [] stage = "count" ->
            IF x.requestCount >= x.dailyLimit THEN "r429" ELSE "insert"
      [] stage = "insert" -> "stream"

\* the branches of POST (lines 73-149): where the handler goes after each stage
POSTFlow(stage, x) ==
    CASE stage = "auth" ->
            IF x.session = NoSession THEN "r401" ELSE "getUser"
      [] stage = "getUser" ->
            IF x.user = NoUser THEN "r401"
            ELSE IF ~x.user.isAdmin /\ x.dailyLimit > 0 THEN "count"
            ELSE "insert"
      [] stage = "count" ->
            IF x.requestCount >= x.dailyLimit THEN "r429" ELSE "insert"
      [] stage = "insert" ->
            IF x.isNewChat THEN "upsert" ELSE "stream"

Locals(r, user, requestCount) ==
    [session |-> rin[r].session, isNewChat |-> rin[r].isNewChat,
     user |-> user, dailyLimit |-> dailyLimit, requestCount |-> requestCount]

\* take request r to the stage POSTFlow names
Goto(r, next) ==
    /\ rpc' = [rpc EXCEPT ![r] =
                  CASE next = "r401" -> "done"
                    [] next = "r429" -> "done"
                    [] next = "upsert" -> "up_find"
                    [] OTHER -> next]
    /\ outcome' = [outcome EXCEPT ![r] =
                  CASE next = "r401" -> "401"
                    [] next = "r429" -> "429"
                    [] OTHER -> @]
    /\ up' = [up EXCEPT ![r] = IF next = "upsert" THEN "initial" ELSE @]

RouteStart(limits, turns, entry) ==
    /\ clock = 0
    /\ dailyLimit \in limits
    /\ requestLogs = <<>>
    /\ chats = [k \in ChatIds |-> NoChat]
    /\ messages = <<>>
    /\ rpc = [r \in Requests |-> entry]
    /\ rin = [r \in Requests |-> NoInput]
    /\ ruser = [r \in Requests |-> NoUser]
    /\ rcount = [r \in Requests |-> 0]
    /\ up = [r \in Requests |-> "none"]
    /\ outcome = [r \in Requests |-> "none"]
    /\ loop = [r \in Requests |-> "none"]
    /\ steps = [r \in Requests |-> 0]
    /\ toolTurnsLeft = turns
    /\ hits = [r \in Requests |-> <<>>]
    /\ touched = [r \in Requests |-> FALSE]
    /\ rawMessages = <<>>
    /\ handed = <<>>

RouteInit == RouteStart(0..MaxLimit, MaxToolTurns, "new")

\* the endpoint left alone
RouteIdle == RouteStart({0}, 0, "idle")

ClockTick ==
    /\ clock < MaxClock
    /\ clock' = clock + 1
    /\ UNCHANGED <<dailyLimit, requestLogs, chats, messages, rpc, rin, ruser, rcount,
                   up, outcome, loop, steps, toolTurnsLeft, hits, touched, limVars, agentVars,
                   rawMessages, handed>>

\* a POST arrives with its session cookie and body
Arrive(r) ==
    /\ rpc[r] = "new"
    /\ \E s \in Sessions, n \in BOOLEAN, k \in ChatIds :
          rin' = [rin EXCEPT ![r] = [session |-> s, isNewChat |-> n, chatId |-> k]]
    /\ rpc' = [rpc EXCEPT ![r] = "auth"]
    /\ UNCHANGED <<clock, dailyLimit, requestLogs, chats, messages, ruser, rcount,
                   up, outcome, loop, steps, toolTurnsLeft, hits, touched, limVars, agentVars,
                   rawMessages, handed>>

\* lines 73-77: await auth()
Auth(r) ==
    /\ rpc[r] = "auth"
    /\ Goto(r, POSTFlow("auth", Locals(r, ruser[r], rcount[r])))
    /\ UNCHANGED <<clock, dailyLimit, requestLogs, chats, messages, rin, ruser, rcount,
                   loop, steps, toolTurnsLeft, hits, touched, limVars, agentVars,
                   rawMessages, handed>>

\* lines 79-127: await getUserById, the body, the admin and limit tests
GetUser(r) ==
    /\ rpc[r] = "getUser"
    /\ LET user == getUserById(rin[r].session)
       IN  /\ ruser' = [ruser EXCEPT ![r] = user]
           /\ Goto(r, POSTFlow("getUser", Locals(r, user, rcount[r])))
    /\ UNCHANGED <<clock, dailyLimit, requestLogs, chats, messages, rin, rcount,
                   loop, steps, toolTurnsLeft, hits, touched, limVars, agentVars,
                   rawMessages, handed>>

\* lines 128-132: await getDailyRequestCount, then the comparison
CountRequests(r) ==
    /\ rpc[r] = "count"
    /\ LET requestCount == getDailyRequestCount(requestLogs, ruser[r].id, clock)
       IN  /\ rcount' = [rcount EXCEPT ![r] = requestCount]
           /\ Goto(r, POSTFlow("count", Locals(r, ruser[r], requestCount)))
    /\ UNCHANGED <<clock, dailyLimit, requestLogs, chats, messages, rin, ruser,
                   loop, steps, toolTurnsLeft, hits, touched, limVars, agentVars,
                   rawMessages, handed>>

\* line 136: await insertRequestLog
InsertLog(r) ==
    /\ rpc[r] = "insert"
    /\ requestLogs' = insertRequestLog(requestLogs, ruser[r].id, clock)
    /\ hits' = [hits EXCEPT ![r] =
                   @ \o SubSeq(requestLogs', Len(requestLogs) + 1, Len(requestLogs'))]
    /\ Goto(r, POSTFlow("insert", Locals(r, ruser[r], rcount[r])))
    /\ UNCHANGED <<clock, dailyLimit, chats, messages, rin, ruser, rcount,
                   loop, steps, toolTurnsLeft, touched, limVars, agentVars,
                   rawMessages, handed>>

\* ---------------------------------------------------------------- upsertChat
\* the list the running upsertChat call was given (lines 143-148, 256-261)
UpsertList(r) ==
    IF up[r] = "initial" THEN Incoming(r)
    ELSE appendResponseMessages(Incoming(r), Response(r))

\* upsertChat throws: the first call fails the POST, the one in onFinish only itself
UpThrow(r) ==
    /\ rpc' = [rpc EXCEPT ![r] = "done"]
    /\ outcome' = [outcome EXCEPT ![r] = IF up[r] = "initial" THEN "error" ELSE @]
    /\ up' = [up EXCEPT ![r] = "none"]

\* faulty variant: the owner of the chat found is not compared with the caller
UpFind_AnyOwner(r) ==
    /\ rpc[r] = "up_find"
    /\ rpc' = [rpc EXCEPT ![r] = IF chats[rin[r].chatId] # NoChat
                                  THEN "up_delete" ELSE "up_insertChat"]
    /\ UNCHANGED <<outcome, up>>
    /\ UNCHANGED <<clock, dailyLimit, requestLogs, chats, messages, rin, ruser, rcount,
                   loop, steps, toolTurnsLeft, hits, touched, limVars, agentVars,
                   rawMessages, handed>>

\* queries.ts lines 57-67: find the chat by id, whoever owns it
UpFind(r) ==
    /\ rpc[r] = "up_find"
    /\ LET existingChat == chats[rin[r].chatId]
       IN  IF existingChat # NoChat
           THEN IF existingChat.userId # ruser[r].id
                THEN UpThrow(r)
                ELSE /\ rpc' = [rpc EXCEPT ![r] = "up_delete"]
                     /\ UNCHANGED <<outcome, up>>
           ELSE /\ rpc' = [rpc EXCEPT ![r] = "up_insertChat"]
                /\ UNCHANGED <<outcome, up>>
    /\ UNCHANGED <<clock, dailyLimit, requestLogs, chats, messages, rin, ruser, rcount,
                   loop, steps, toolTurnsLeft, hits, touched, limVars, agentVars,
                   rawMessages, handed>>

\* faulty variant: the chat's old messages are kept
UpDelete_Keeps(r) ==
    /\ rpc[r] = "up_delete"
    /\ touched' = [touched EXCEPT ![r] = TRUE]
    /\ rpc' = [rpc EXCEPT ![r] = "up_update"]
    /\ UNCHANGED <<clock, dailyLimit, requestLogs, chats, messages, rin, ruser, rcount,
                   up, outcome, loop, steps, toolTurnsLeft, hits, limVars, agentVars,
                   rawMessages, handed>>

\* queries.ts line 70: delete the chat's messages
UpDelete(r) ==
    /\ rpc[r] = "up_delete"
    /\ messages' = SelectSeq(messages, LAMBDA m : m.chatId # rin[r].chatId)
    /\ touched' = [touched EXCEPT ![r] = TRUE]
    /\ rpc' = [rpc EXCEPT ![r] = "up_update"]
    /\ UNCHANGED <<clock, dailyLimit, requestLogs, chats, rin, ruser, rcount,
                   up, outcome, loop, steps, toolTurnsLeft, hits, limVars, agentVars,
                   rawMessages, handed>>

\* queries.ts lines 73-79: update the chat's title and updatedAt
UpUpdate(r) ==
    /\ rpc[r] = "up_update"
    /\ chats' = [chats EXCEPT ![rin[r].chatId] =
                    IF @ = NoChat THEN @ ELSE [@ EXCEPT !.updatedAt = clock]]
    /\ touched' = [touched EXCEPT ![r] = TRUE]
    /\ rpc' = [rpc EXCEPT ![r] = "up_msgs"]
    /\ UNCHANGED <<clock, dailyLimit, requestLogs, messages, rin, ruser, rcount,
                   up, outcome, loop, steps, toolTurnsLeft, hits, limVars, agentVars,
                   rawMessages, handed>>

\* queries.ts lines 82-88: insert the chat; its id is the table's primary key, so the
\* insert fails when another request has created the chat meanwhile
UpInsertChat(r) ==
    /\ rpc[r] = "up_insertChat"
    /\ IF chats[rin[r].chatId] # NoChat
       THEN /\ UpThrow(r)
            /\ UNCHANGED <<chats, touched>>
       ELSE /\ chats' = [chats EXCEPT ![rin[r].chatId] =
                           [userId |-> ruser[r].id, updatedAt |-> clock]]
            /\ touched' = [touched EXCEPT ![r] = TRUE]
            /\ rpc' = [rpc EXCEPT ![r] = "up_msgs"]
            /\ UNCHANGED <<outcome, up>>
    /\ UNCHANGED <<clock, dailyLimit, requestLogs, messages, rin, ruser, rcount,
                   loop, steps, toolTurnsLeft, hits, limVars, agentVars,
                   rawMessages, handed>>

\* queries.ts lines 92-102: insert the list's rows; the call returns
UpMessages(r) ==
    /\ rpc[r] = "up_msgs"
    /\ messages' = messages \o MessageRows(rin[r].chatId, UpsertList(r))
    /\ touched' = [touched EXCEPT ![r] = TRUE]
    /\ rpc' = [rpc EXCEPT ![r] = IF up[r] = "initial" THEN "stream" ELSE "done"]
    /\ up' = [up EXCEPT ![r] = "none"]
    /\ UNCHANGED <<clock, dailyLimit, requestLogs, chats, rin, ruser, rcount,
                   outcome, loop, steps, toolTurnsLeft, hits, limVars, agentVars,
                   rawMessages, handed>>

\* ---------------------------------------------------------------- streamText
\* lines 165-267: streamText starts the loop and POST returns the stream
StartStream(r) ==
    /\ rpc[r] = "stream"
    /\ outcome' = [outcome EXCEPT ![r] = "stream"]
    /\ loop' = [loop EXCEPT ![r] = "reasoning"]
    /\ rpc' = [rpc EXCEPT ![r] = "loop"]
    /\ UNCHANGED <<clock, dailyLimit, requestLogs, chats, messages, rin, ruser, rcount,
                   up, steps, toolTurnsLeft, hits, touched, limVars, agentVars,
                   rawMessages, handed>>

\* the loop is over: onFinish (lines 238-264) saves the chat
Finish(r) ==
    /\ loop' = [loop EXCEPT ![r] = "done"]
    /\ rpc' = [rpc EXCEPT ![r] = "up_find"]
    /\ up' = [up EXCEPT ![r] = "finish"]

\* one model call: the engine answers with text, or asks for tool calls
Reason(r) ==
    /\ rpc[r] = "loop" /\ loop[r] = "reasoning"
    /\ steps' = [steps EXCEPT ![r] = @ + 1]
    /\ \/ /\ Finish(r)
          /\ UNCHANGED toolTurnsLeft
       \/ /\ toolTurnsLeft > 0
          /\ toolTurnsLeft' = toolTurnsLeft - 1
          /\ loop' = [loop EXCEPT ![r] = "toolcall"]
          /\ UNCHANGED <<rpc, up>>
    /\ UNCHANGED <<clock, dailyLimit, requestLogs, chats, messages, rin, ruser, rcount,
                   outcome, hits, touched, limVars, agentVars,
                   rawMessages, handed>>

\* the tools of the step return; stepCountIs(10) stops the loop at the budget
ToolsReturn(r) ==
    /\ rpc[r] = "loop" /\ loop[r] = "toolcall"
    /\ IF steps[r] >= stepLimit
       THEN Finish(r)
       ELSE /\ loop' = [loop EXCEPT ![r] = "reasoning"]
            /\ UNCHANGED <<rpc, up>>
    /\ UNCHANGED <<clock, dailyLimit, requestLogs, chats, messages, rin, ruser, rcount,
                   outcome, steps, toolTurnsLeft, hits, touched, limVars, agentVars,
                   rawMessages, handed>>

\* the stream is cancelled or fails: no onFinish
Abort(r) ==
    /\ rpc[r] = "loop" /\ loop[r] \in {"reasoning", "toolcall"}
    /\ loop' = [loop EXCEPT ![r] = "aborted"]
    /\ rpc' = [rpc EXCEPT ![r] = "done"]
    /\ UNCHANGED <<clock, dailyLimit, requestLogs, chats, messages, rin, ruser, rcount,
                   up, outcome, steps, toolTurnsLeft, hits, touched, limVars, agentVars,
                   rawMessages, handed>>

\* ================================================================ agent loop
MaxBudget == 3         \* largest step budget a loop is run with
MaxUrls == 3           \* urls given to one scrapePages call

ToolNames == {"searchWeb", "scrapePages"}
\* the tool invocations the engine may request in one step
ToolLists == {<<"searchWeb">>, <<"scrapePages">>, <<"searchWeb", "scrapePages">>}
Slots == 1..2
Nothing == [kind |-> "nothing"]

\* faulty variant: the budget is compared one step late
stepCountIs_OneLate(k, n) == n = k + 1

\* faulty variant: the stop condition never holds
stepCountIs_Never(k, n) == FALSE

\* stopWhen: stepCountIs(k), evaluated on the n steps made when a step has finished
stepCountIs(k, n) == n = k

\* the messages of the conversation and those a step adds to it
UserMessage == [role |-> "user", parts |-> <<>>]
AssistantText == [role |-> "assistant", parts |-> <<>>]
AssistantCalls(ts) ==
    [role |-> "assistant",
     parts |-> [i \in DOMAIN ts |-> [tool |-> ts[i], state |-> "call"]]]

\* faulty variant: the outputs of the tools are not handed to the next step
ToolOutputs_Dropped(cs) == [role |-> "tool", parts |-> <<>>]

ToolOutputs(cs) == [role |-> "tool", parts |-> cs]

\* a loop that has not been started
LoopIdle ==
    /\ budget = 1
    /\ agent = "none"
    /\ stepCount = 0
    /\ context = <<>>
    /\ calls = <<>>
    /\ modelCalls = 0
    /\ toolStarts = 0

\* no scrapePages and no searchWeb is running
ScrapeIdle ==
    /\ impl = "deep-search"
    /\ urls = <<>>
    /\ fetch = <<>>
    /\ order = <<>>
    /\ crawl = "none"
    /\ out = Nothing
    /\ search = "none"

AgentIdle == LoopIdle /\ aborted = FALSE /\ ScrapeIdle

\* streamText has been called with the conversation and a step budget
AgentStart(budgets) ==
    /\ budget \in budgets
    /\ agent = "Reasoning"
    /\ stepCount = 0
    /\ context = <<UserMessage>>
    /\ calls = <<>>
    /\ modelCalls = 0
    /\ toolStarts = 0
    /\ aborted = FALSE

AgentInit == AgentStart(1..MaxBudget) /\ ScrapeIdle

\* a step's model call returns: a final text ends the loop, tool calls are started
ReasoningStep ==
    /\ agent = "Reasoning" /\ stepCount <= MaxBudget
    /\ modelCalls' = modelCalls + 1
    /\ \/ /\ context' = Append(context, AssistantText)
          /\ stepCount' = stepCount + 1
          /\ agent' = "Done"
          /\ UNCHANGED <<calls, toolStarts>>
       \/ \E ts \in ToolLists :
            /\ context' = Append(context, AssistantCalls(ts))
            /\ calls' = [i \in DOMAIN ts |-> [tool |-> ts[i], state |-> "running"]]
            /\ toolStarts' = toolStarts + Len(ts)
            /\ agent' = "ToolCall"
            /\ UNCHANGED stepCount
    /\ UNCHANGED <<budget, aborted, scrapeVars, limVars, routeVars>>

\* a step's model call fails: the loop ends in error
ReasoningFails ==
    /\ agent = "Reasoning" /\ stepCount <= MaxBudget
    /\ modelCalls' = modelCalls + 1
    /\ agent' = "Aborted"
    /\ UNCHANGED <<budget, stepCount, context, calls, toolStarts, aborted, scrapeVars,
                   limVars, routeVars>>

\* execute of tool invocation i settles, with a result or an error; when it was the
\* last one of the step the outputs join the context, the step is counted and
\* stopWhen decides between another step and the end
ToolReturn(i) ==
    /\ agent = "ToolCall"
    /\ i \in DOMAIN calls /\ calls[i].state = "running"
    /\ \E st \in {"result", "error"} :
         LET cs == [calls EXCEPT ![i].state = st]
         IN  IF \A j \in DOMAIN cs : cs[j].state # "running"
             THEN /\ context' = Append(context, ToolOutputs(cs))
                  /\ stepCount' = stepCount + 1
                  /\ calls' = <<>>
                  /\ agent' = IF stepCountIs(budget, stepCount + 1)
                              THEN "Done" ELSE "Reasoning"
             ELSE /\ calls' = cs
                  /\ UNCHANGED <<context, stepCount, agent>>
    /\ UNCHANGED <<budget, modelCalls, toolStarts, aborted, scrapeVars, limVars,
                   routeVars>>

\* the cancellation signal fires while the loop runs
Cancel ==
    /\ agent \in {"Reasoning", "ToolCall"} /\ ~aborted
    /\ aborted' = TRUE
    /\ agent' = "Aborted"
    /\ UNCHANGED <<budget, stepCount, context, calls, modelCalls, toolStarts,
                   scrapeVars, limVars, routeVars>>

\* =============================================================== scrapePages
Urls == {"a.test", "b.test"}
UrlLists == UNION {[1..n -> Urls] : n \in 1..MaxUrls}
Null == "null"
Undefined == "undefined"
\* the page of a url converted to markdown
Markdown(url) == IF url = "a.test" THEN "# a" ELSE "# b"

\* obj.name in JavaScript: undefined when the object has no such property
Field(obj, name) == IF name \in DOMAIN obj THEN obj[name] ELSE Undefined

\* a CrawlOutcome: the page as markdown with its source type, or an error
Fetched(url, sourceType) ==
    [success |-> TRUE, sourceType |-> sourceType, data |-> Markdown(url)]
FetchFailed(url) == [success |-> FALSE, error |-> "disallowed by robots.txt"]
Outcomes(url) == {Fetched(url, "html"), Fetched(url, "pdf"), FetchFailed(url)}

\* what the aggregation may throw: an Error with a message, or another value
Thrown == {[isError |-> TRUE, message |-> "crawl crashed"], [isError |-> FALSE]}

Inflight == [state |-> "inflight"]
Settled(crawled) == [state |-> "settled", result |-> crawled]

\* crawlMultipleUrls resolves: one entry per url in the order of `us`, success when
\* every fetch succeeded
CrawlBatchResult(us, f) ==
    [success |-> \A i \in DOMAIN us : f[i].result.success,
     results |-> [i \in DOMAIN us |-> [url |-> us[i], result |-> f[i].result]]]

\* faulty variant: the per-url check is left out of the second branch too
Sources_Unchecked(crawlResult) ==
    [i \in DOMAIN crawlResult.results |->
        [url |-> crawlResult.results[i].url,
         content |-> Field(crawlResult.results[i].result, "data"),
         sourceType |-> Field(crawlResult.results[i].result, "sourceType")]]

\* the flattened `sources` of a crawl result
Sources(crawlResult) ==
    IF crawlResult.success = TRUE
    THEN [i \in DOMAIN crawlResult.results |->
            [url |-> crawlResult.results[i].url,
             content |-> Field(crawlResult.results[i].result, "data"),
             sourceType |-> Field(crawlResult.results[i].result, "sourceType")]]
    ELSE [i \in DOMAIN crawlResult.results |->
            LET result == crawlResult.results[i].result
            IN  [url |-> crawlResult.results[i].url,
                 content |-> IF result.success THEN result.data ELSE Null,
                 sourceType |-> IF result.success THEN result.sourceType ELSE Null]]

\* faulty variant: only the pages that were fetched are handed on
ScrapeReturn_SuccessesOnly(crawlResult) ==
    LET kept == SelectSeq(crawlResult.results, LAMBDA x : x.result.success)
    IN  [kind |-> "returned", success |-> crawlResult.success, results |-> kept,
         sources |-> Sources([success |-> crawlResult.success, results |-> kept])]

\* return { ...crawlResult, sources }
ScrapeReturn(crawlResult) ==
    [kind |-> "returned", success |-> crawlResult.success,
     results |-> crawlResult.results, sources |-> Sources(crawlResult)]

\* error instanceof Error ? error.message : fallback
ErrorMessage(error, fallback) == IF error.isError THEN error.message ELSE fallback

\* faulty variant: the catch block reports the batch as a success
ScrapeCatch_ReportsSuccess(us, error) ==
    [kind |-> "returned", success |-> TRUE,
     results |-> [i \in DOMAIN us |->
                    [url |-> us[i],
                     result |-> [success |-> FALSE,
                                 error |-> ErrorMessage(error, "Unknown error occurred")]]],
     error |-> ErrorMessage(error, "Failed to scrape pages"),
     sources |-> [i \in DOMAIN us |->
                    [url |-> us[i], content |-> Null, sourceType |-> Null]]]

\* the value the catch block returns
ScrapeCatch(us, error) ==
    [kind |-> "returned", success |-> FALSE,
     results |-> [i \in DOMAIN us |->
                    [url |-> us[i],
                     result |-> [success |-> FALSE,
                                 error |-> ErrorMessage(error, "Unknown error occurred")]]],
     error |-> ErrorMessage(error, "Failed to scrape pages"),
     sources |-> [i \in DOMAIN us |->
                    [url |-> us[i], content |-> Null, sourceType |-> Null]]]

\* execute rejects with what was thrown
Raised(error) == [kind |-> "raised", error |-> error]

\* faulty variant: the list may be empty
inputSchema_NoMin(us) == \A i \in DOMAIN us : us[i] \in Urls

\* inputSchema: z.array(z.string().url()).min(1)
inputSchema(us) == Len(us) >= 1 /\ \A i \in DOMAIN us : us[i] \in Urls

\* the engine asks for scrapePages with input the schema rejects: execute is not called
ScrapeReject ==
    /\ crawl = "none" /\ out = Nothing /\ ~aborted
    /\ \E us \in UrlLists \cup {<<>>} :
         /\ ~inputSchema(us)
         /\ urls' = us
    /\ out' = [kind |-> "rejected"]
    /\ UNCHANGED <<impl, fetch, order, crawl, search, aborted, loopVars, limVars,
                   routeVars>>

\* scrapePages.execute is called: crawlMultipleUrls(urls) starts one fetch per url
ScrapeBegin ==
    /\ crawl = "none" /\ out = Nothing /\ ~aborted
    /\ \E im \in {"deep-search", "route"}, us \in UrlLists \cup {<<>>} :
         /\ inputSchema(us)
         /\ impl' = im
         /\ urls' = us
         /\ fetch' = [i \in DOMAIN us |-> Inflight]
    /\ order' = <<>>
    /\ crawl' = "running"
    /\ UNCHANGED <<out, search, aborted, loopVars, limVars, routeVars>>

\* the fetch of urls[i] settles with its outcome
FetchDone(i) ==
    /\ i \in DOMAIN fetch /\ fetch[i].state = "inflight"
    /\ \E crawled \in Outcomes(urls[i]) : fetch' = [fetch EXCEPT ![i] = Settled(crawled)]
    /\ order' = Append(order, i)
    /\ UNCHANGED <<impl, urls, crawl, out, search, aborted, loopVars, limVars, routeVars>>

\* all fetches have settled: crawlMultipleUrls resolves and execute returns
CrawlResolve ==
    /\ crawl = "running"
    /\ \A i \in DOMAIN fetch : fetch[i].state = "settled"
    /\ crawl' = "resolved"
    /\ out' = ScrapeReturn(CrawlBatchResult(urls, fetch))
    /\ UNCHANGED <<impl, urls, fetch, order, search, aborted, loopVars, limVars, routeVars>>

\* crawlMultipleUrls throws: deep-search.ts catches, route.ts has no try
CrawlThrow ==
    /\ crawl = "running"
    /\ crawl' = "threw"
    /\ \E error \in Thrown :
         out' = IF impl = "deep-search" THEN ScrapeCatch(urls, error) ELSE Raised(error)
    /\ UNCHANGED <<impl, urls, fetch, order, search, aborted, loopVars, limVars, routeVars>>

\* searchWeb.execute is called: searchSerper is given the abortSignal
SearchBegin ==
    /\ search = "none" /\ ~aborted
    /\ search' = "inflight"
    /\ UNCHANGED <<impl, urls, fetch, order, crawl, out, aborted, loopVars, limVars,
                   routeVars>>

SearchDone ==
    /\ search = "inflight"
    /\ search' = "done"
    /\ UNCHANGED <<impl, urls, fetch, order, crawl, out, aborted, loopVars, limVars,
                   routeVars>>

\* the cancellation signal fires: the request that holds the signal is aborted; the
\* fetches of crawlMultipleUrls(urls) were not given it
SignalFires ==
    /\ ~aborted
    /\ aborted' = TRUE
    /\ search' = IF search = "inflight" THEN "aborted" ELSE search
    /\ UNCHANGED <<impl, urls, fetch, order, crawl, out, loopVars, limVars, routeVars>>

ScrapeNext ==
    \/ ScrapeReject \/ ScrapeBegin \/ CrawlResolve \/ CrawlThrow
    \/ \E i \in 1..MaxUrls : FetchDone(i)
    \/ SearchBegin \/ SearchDone \/ SignalFires

AgentNext ==
    \/ ReasoningStep \/ ReasoningFails \/ Cancel
    \/ \E i \in Slots : ToolReturn(i)

RouteNext ==
    \/ ClockTick
    \/ \E r \in Requests :
          \/ Arrive(r) \/ Auth(r) \/ GetUser(r) \/ CountRequests(r) \/ InsertLog(r)
          \/ UpFind(r) \/ UpDelete(r) \/ UpUpdate(r) \/ UpInsertChat(r) \/ UpMessages(r)
          \/ StartStream(r) \/ Reason(r) \/ ToolsReturn(r) \/ Abort(r)

SpecRouteInit == RouteInit /\ LimIdle /\ AgentIdle

SpecRoute == SpecRouteInit /\ [][RouteNext]_vars

\* ============================================================ specifications
LimNext ==
    \/ Tick
    \/ \E c \in Callers :
          \/ CheckBegin(c) \/ CheckGet(c)
          \/ RecordBegin(c) \/ RecIncr(c) \/ RecExpire(c) \/ RecAbort(c)
          \/ RetryBegin(c) \/ RetryWake(c) \/ RetryGet(c)

SpecLimiterInit == LimInit /\ RouteIdle /\ AgentIdle

SpecLimiter == SpecLimiterInit /\ [][LimNext]_vars

\* ------------------------------------------------------- the gate protocol
\* callers that only run the gate: checkRateLimit, then recordRateLimit if and only
\* if the check allowed (spec 4.2); one limiter with maxRequests 1
GateInit == LimStart(1, WindowSizes, {1}, MaxOps + 1, 0)

GateRecordBegin(c) ==
    /\ last[c] = "checked" /\ res[c].allowed
    /\ RecordBegin(c)

GateNext ==
    \/ Tick
    \/ \E c \in Callers :
          \/ CheckBegin(c) \/ CheckGet(c)
          \/ GateRecordBegin(c) \/ RecIncr(c) \/ RecExpire(c) \/ RecAbort(c)

SpecGateInit == GateInit /\ RouteIdle /\ AgentIdle

SpecGate == SpecGateInit /\ [][GateNext]_vars

\* ----------------------------------------------------- the gate in an outage
\* the same callers while every store operation fails
OutageInit == LimStart(1, WindowSizes, {1}, MaxOps + 1, StoreDown)

SpecOutageInit == OutageInit /\ RouteIdle /\ AgentIdle

SpecOutage == SpecOutageInit /\ [][GateNext]_vars

\* ================================================================== claims

\* C2: callers running the gate protocol on one limiter: at most maxRequests are
\* admitted (allowed by a check whose read succeeded, then recorded) in one window.
C2_GateAdmitsAtMostMax ==
    \A c \in Callers :
        admits[<<cfg[c].keyPrefix, cfg[c].windowMs, res[c].windowStart>>]
            <= cfg[c].maxRequests

\* C6: a check whose read happens inside its window, on a key that only completed
\* recordRateLimit calls of the same windowMs have written, returns totalHits = n,
\* allowed = (n < maxRequests), remaining = max(0, maxRequests - n), n the number of
\* those calls.
C6_CheckCountsHits ==
    [][/\ \A c \in Callers :
            LET n == okHits[<<lk[c].key, cfg[c].windowMs>>]
            IN  ( /\ CheckGet(c)
                  /\ ~res'[c].failOpen
                  /\ lk[c].windowStart <= now
                  /\ now < lk[c].windowStart + cfg[c].windowMs
                  /\ incrCount[lk[c].key] = n )
                => /\ res'[c].totalHits = n
                   /\ res'[c].allowed = (n < cfg[c].maxRequests)
                   /\ res'[c].remaining = Max(0, cfg[c].maxRequests - n)
       /\ \A w \in WindowSizes :
            LET five == NormalResult(AfterIncrs(5), 5, w, 0)
                four == NormalResult(AfterIncrs(4), 5, w, 0)
            IN  /\ five.totalHits = 5 /\ ~five.allowed /\ five.remaining = 0
                /\ four.totalHits = 4 /\ four.allowed /\ four.remaining = 1]_vars

\* C6 witness: maxRequests hits completed, then a check of that window was denied
C6_Witness ==
    \E c \in Callers :
        /\ last[c] = "checked" /\ ~res[c].failOpen
        /\ res[c].totalHits = cfg[c].maxRequests
        /\ ~res[c].allowed /\ res[c].remaining = 0
        /\ okHits[<<<<cfg[c].keyPrefix, res[c].windowStart>>, cfg[c].windowMs>>]
              = cfg[c].maxRequests

\* C7: a check made in a window in which no hit has been recorded yet returns
\* allowed = true and totalHits = 0, whatever the earlier windows counted.
C7_FreshWindowAllows ==
    [][\A c \in Callers :
         ( /\ CheckGet(c)
           /\ lastIncrAt[cfg[c].keyPrefix] < (now \div cfg[c].windowMs) * cfg[c].windowMs
           /\ lk[c].windowStart = (now \div cfg[c].windowMs) * cfg[c].windowMs )
         => /\ res'[c].allowed
            /\ res'[c].totalHits = 0]_vars

\* C7 witness: the previous window reached maxRequests, the check of the next window
\* is allowed with totalHits 0
C7_Witness ==
    \E c \in Callers :
        /\ last[c] = "checked" /\ ~res[c].failOpen
        /\ res[c].allowed /\ res[c].totalHits = 0
        /\ res[c].windowStart > 0
        /\ okHits[<<<<cfg[c].keyPrefix, res[c].windowStart - cfg[c].windowMs>>,
                    cfg[c].windowMs>>] >= cfg[c].maxRequests

\* C8: when the read throws, checkRateLimit returns allowed, totalHits 0,
\* remaining maxRequests - 1, resetTime windowStart + windowMs, and retry() of that
\* result resolves true at once.
C8_FailOpen ==
    [][\A c \in Callers :
         /\ (CheckGet(c) /\ res'[c].failOpen)
              => /\ res'[c].valid /\ res'[c].allowed
                 /\ res'[c].totalHits = 0
                 /\ res'[c].remaining = cfg[c].maxRequests - 1
                 /\ res'[c].resetTime = lk[c].windowStart + cfg[c].windowMs
         /\ (RetryBegin(c) /\ res[c].failOpen)
              => /\ last'[c] = "retry_true"
                 /\ pc'[c] = "idle"
                 /\ store' = store]_vars

\* C8 witness: retry() of a fail-open result has resolved true
C8_Witness ==
    \E c \in Callers :
        /\ res[c].valid /\ res[c].failOpen /\ last[c] = "retry_true"
        /\ res[c].remaining = cfg[c].maxRequests - 1

\* C9 as claimed: every result has remaining = max(0, maxRequests - totalHits) and
\* resetTime = windowStart + windowMs.
C9_Original ==
    \A c \in Callers :
        res[c].valid =>
            /\ res[c].remaining = Max(0, cfg[c].maxRequests - res[c].totalHits)
            /\ res[c].resetTime = res[c].windowStart + cfg[c].windowMs

\* C9 as amended: on the normal path remaining = max(0, maxRequests - totalHits); on
\* the fail-open path remaining = maxRequests - 1 with totalHits = 0; on both
\* resetTime = windowStart + windowMs.
C9_ResultShape ==
    \A c \in Callers :
        res[c].valid =>
            /\ ~res[c].failOpen =>
                  res[c].remaining = Max(0, cfg[c].maxRequests - res[c].totalHits)
            /\ res[c].failOpen =>
                  /\ res[c].remaining = cfg[c].maxRequests - 1
                  /\ res[c].totalHits = 0
            /\ res[c].resetTime = res[c].windowStart + cfg[c].windowMs
            /\ res[c].windowStart % cfg[c].windowMs = 0

\* C9 witness: a normal result floored at 0 beside a fail-open result
C9_Witness ==
    \E c, d \in Callers :
        /\ res[c].valid /\ ~res[c].failOpen /\ res[c].totalHits > 0
        /\ res[d].valid /\ res[d].failOpen

\* C10: recordRateLimit never returns normally when the pipeline gave no result or
\* the increment reported an error.
C10_RecordRaises ==
    \A c \in Callers :
        (rec[c].isNull \/ rec[c].incrErr) => last[c] # "rec_returned"

\* C10 witness: a recordRateLimit ended by throwing on an increment error or on null
C10_Witness ==
    \E c \in Callers :
        /\ last[c] = "rec_threw"
        /\ (rec[c].incrErr \/ rec[c].isNull)

\* ------------------------------------------------------------ chat endpoint
\* the requests of user u whose hit fell in the UTC day of date d and that reached the loop
ReachedLoop(u, d) ==
    {r \in Requests :
        /\ ruser[r] = u
        /\ loop[r] # "none"
        /\ \E i \in 1..Len(hits[r]) :
              getDayBounds(hits[r][i].createdAt) = getDayBounds(d)}

\* C1: for a non-admin user with daily limit L > 0, at most L of the user's requests
\* within one UTC day pass the gate and reach the model/tool loop, whatever the
\* interleaving of the concurrent POSTs.
C1_DailyLimitHolds ==
    dailyLimit > 0 =>
        \A u \in Users : \A d \in 0..MaxClock :
            ~u.isAdmin => Cardinality(ReachedLoop(u, d)) <= dailyLimit

Unauthenticated(r) ==
    rin[r].session = NoSession \/ getUserById(rin[r].session) = NoUser

OverLimit(r) ==
    /\ ~Unauthenticated(r)
    /\ ~getUserById(rin[r].session).isAdmin
    /\ dailyLimit > 0
    /\ rcount[r] >= dailyLimit

\* C3: every POST ends in exactly one of 401 (no session user, or no user record),
\* 429 (authenticated, not admin, limit > 0 and the day's count at least the limit)
\* and a streamed answer (otherwise); authentication is decided before the rate check.
C3_ThreeOutcomes ==
    \A r \in Requests :
        /\ rpc[r] = "done" => outcome[r] \in {"401", "429", "stream"}
        /\ outcome[r] # "none" =>
              /\ outcome[r] \in {"401", "429", "stream"}
              /\ outcome[r] = "401" <=> Unauthenticated(r)
              /\ outcome[r] = "429" <=> OverLimit(r)
        /\ rpc[r] = "count" => ~Unauthenticated(r)

\* C4: a request rejected with 401 or 429 records no hit, creates or modifies no chat
\* and never starts the agent loop.
C4_RejectedHasNoEffect ==
    \A r \in Requests :
        outcome[r] \in {"401", "429"} =>
            /\ hits[r] = <<>>
            /\ ~touched[r]
            /\ loop[r] = "none"
            /\ steps[r] = 0
            /\ rpc[r] = "done"

\* both kinds of rejection have happened, one of them beside an admitted request
C4_Witness ==
    /\ \E r \in Requests : outcome[r] = "429" /\ rcount[r] >= 1
    /\ \E r \in Requests : outcome[r] = "stream" /\ touched[r] /\ hits[r] # <<>>

\* request r is past the gate
Admitted(r) ==
    \/ rpc[r] \in {"up_find", "up_delete", "up_update", "up_insertChat", "up_msgs",
                   "stream", "loop"}
    \/ rpc[r] = "done" /\ outcome[r] \in {"stream", "error"}

\* C5: every admitted request records exactly one hit, before the agent loop starts,
\* and no further hit however many reasoning steps and tool calls follow.
C5_OneHitBeforeLoop ==
    \A r \in Requests :
        /\ Len(hits[r]) <= 1
        /\ Admitted(r) \/ loop[r] # "none" =>
              /\ Len(hits[r]) = 1
              /\ hits[r][1].userId = ruser[r].id
              /\ \E i \in 1..Len(requestLogs) : requestLogs[i] = hits[r][1]
        /\ Len(requestLogs) = Len(hits["r1"]) + Len(hits["r2"])

\* a request ran the loop through a tool call and saved its answer, with its one hit
C5_Witness ==
    \E r \in Requests :
        /\ rpc[r] = "done" /\ loop[r] = "done" /\ steps[r] >= 2
        /\ Len(hits[r]) = 1
        /\ \E i \in 1..Len(messages) : messages[i].role = "assistant"

\* ------------------------------------------------------ window keys alone
\* recordRateLimit and checkRateLimit up to their getWindowKey call, at every
\* millisecond 0..MaxNow and for every windowMs 1..MaxWindowMs
WindowInit == LimStart(1, 1..MaxWindowMs, {1}, 0, 0)

\* Date.now() advances by one millisecond
ClockStep ==
    /\ now < MaxNow
    /\ now' = now + 1
    /\ UNCHANGED <<redisVars, faults, cfg, pc, lk, res, rec, rt, last, opsLeft,
                   histVars, routeVars, agentVars>>

\* lines 39-42 of recordRateLimit, lines 76-79 of checkRateLimit
KeyCompute(c) ==
    /\ lk' = [lk EXCEPT ![c] = getWindowKey(now, cfg[c].windowMs, cfg[c].keyPrefix)]
    /\ keyedAt' = [keyedAt EXCEPT ![c] = now]
    /\ \E fn \in {"recordRateLimit", "checkRateLimit"} :
          last' = [last EXCEPT ![c] = fn]
    /\ UNCHANGED <<now, redisVars, faults, cfg, pc, res, rec, rt, opsLeft,
                   incrCount, okHits, lastIncrAt, admits, routeVars, agentVars>>

WindowNext ==
    \/ ClockStep
    \/ \E c \in Callers : KeyCompute(c)

SpecWindowInit == WindowInit /\ RouteIdle /\ AgentIdle

SpecWindow == SpecWindowInit /\ [][WindowNext]_vars

\* ------------------------------------------------------- a chain of retries
\* caller c1 checks and retries while caller c2 keeps recording hits, in windows of
\* one tick, with maxRetries 0 or 1 and a store that does not fail
RetryInit == LimStart(1, {ShortWindow}, {0, 1}, MaxOps + 2, MaxFaults)

RetryNext ==
    \/ Tick
    \/ CheckBegin("c1") \/ CheckGet("c1")
    \/ RetryBegin("c1") \/ RetryWake("c1") \/ RetryGet("c1")
    \/ RecordBegin("c2") \/ RecIncr("c2") \/ RecExpire("c2")

SpecRetryInit == RetryInit /\ RouteIdle /\ AgentIdle

SpecRetry == SpecRetryInit /\ [][RetryNext]_vars

\* --------------------------------------------------------- outage and retry
\* C11: while every store operation fails, a caller that runs checkRateLimit and then
\* recordRateLimit never ends in an error: it goes on to the agent loop.
C11_OutageNeverBlocks ==
    \A c \in Callers :
        faults = StoreDown =>
            /\ last[c] = "checked" => res[c].allowed
            /\ last[c] # "rec_threw"

\* C12: a retry() on a denied result never performs more than maxRetries re-checks,
\* counted over the whole chain of recursive retries it starts.
C12_RechecksWithinCap ==
    \A c \in Callers :
        pc[c] = "rt_get" => rt[c].depth + 1 <= cfg[c].maxRetries

\* C13: retry() resolves after a bounded number of sleep-then-recheck rounds: the
\* re-check made once maxRetries denied rounds lie behind ends the chain, even when it
\* is denied again.
C13_RetryStopsAtCap ==
    [][\A c \in Callers :
         (RetryGet(c) /\ rt[c].depth >= cfg[c].maxRetries) => pc'[c] = "idle"]_vars

\* the counter of the window that result `result` of caller c was computed for
CounterOf(c, result) ==
    LET v == store[<<cfg[c].keyPrefix, result.windowStart>>]
    IN  IF v = Nil THEN 0 ELSE parseInt(v)

\* C14: retry() on a result whose allowed is true resolves true at once: it does not
\* sleep, starts no re-check and leaves the store alone, whatever the counter holds by
\* then.
C14_RetryOfAllowedIsNoop ==
    [][\A c \in Callers :
         (RetryBegin(c) /\ res[c].allowed) =>
             /\ last'[c] = "retry_true"
             /\ pc'[c] = "idle"
             /\ UNCHANGED <<now, store, expireAt, faults, lk, rt, res>>]_vars

\* C14 witness: the retry of an allowed result resolved true although the window of
\* that result has been filled since the check
C14_Witness ==
    \E c \in Callers :
        /\ last[c] = "retry_true"
        /\ res[c].valid /\ res[c].allowed /\ ~res[c].failOpen
        /\ res[c].totalHits = 0
        /\ CounterOf(c, res[c]) >= cfg[c].maxRequests

\* C15: retry() on a denied result resolves only through a re-check: true exactly
\* when the re-check it has just made allowed (its read failing counts as allowed),
\* false only when that re-check was denied.
C15_RetryVerdictFollowsRecheck ==
    [][\A c \in Callers :
         LET v == store[lk[c].key]
             count == IF v = Nil THEN 0 ELSE parseInt(v)
             recheckAllowed == faults' # faults \/ count < cfg[c].maxRequests
         IN  /\ RetryGet(c) =>
                  /\ last'[c] = "retry_true" <=> recheckAllowed
                  /\ last'[c] = "retry_false" => ~recheckAllowed
                  /\ last'[c] \in {"retry_true", "retry_false"} <=> pc'[c] = "idle"
             /\ ( /\ ~res[c].allowed
                  /\ last'[c] # last[c]
                  /\ last'[c] \in {"retry_true", "retry_false"} ) => RetryGet(c)]_vars

\* C15 witness: the retry of a denied result resolved false after a denied re-check
C15_Witness ==
    \E c \in Callers :
        /\ last[c] = "retry_false"
        /\ res[c].valid /\ ~res[c].allowed
        /\ \E k \in Keys : k[2] > res[c].windowStart /\ store[k] # Nil

\* C16: on a denied result retry() sleeps only while resetTime lies ahead, and each
\* re-check is made at or after the resetTime of the denial it retries, on the key of
\* a later window, with the configuration of the denied check.
C16_RecheckAfterReset ==
    [][\A c \in Callers :
         /\ (pc'[c] = "rt_sleep" /\ (pc[c] # "rt_sleep" \/ rt'[c] # rt[c])) =>
                rt'[c].resetTime - now' > 0
         /\ pc'[c] = "rt_get" =>
                /\ now' >= rt'[c].resetTime
                /\ lk'[c].windowStart >= rt'[c].resetTime
                /\ lk'[c].windowStart % cfg[c].windowMs = 0
                /\ lk'[c].key = <<cfg[c].keyPrefix, lk'[c].windowStart>>
         /\ RetryBegin(c) /\ ~res[c].allowed => rt'[c].resetTime = res[c].resetTime
         /\ (RetryGet(c) /\ pc'[c] # "idle") =>
                rt'[c].resetTime = lk[c].windowStart + cfg[c].windowMs
         /\ pc[c] \in {"rt_sleep", "rt_get"} => cfg'[c] = cfg[c]]_vars

\* C16 witness: after a sleep, the second re-check of a chain reads a window two or
\* more windows after the denied one
C16_Witness ==
    \E c \in Callers :
        /\ pc[c] = "rt_get" /\ rt[c].depth = 1
        /\ ~res[c].allowed
        /\ lk[c].windowStart >= res[c].windowStart + 2 * cfg[c].windowMs
        /\ now >= rt[c].resetTime

\* ------------------------------------------------------- the store's counter
\* the number a key's value stands for (a missing key counts as 0)
ValueOf(v) == IF v = Nil THEN 0 ELSE parseInt(v)

\* C17: recordRateLimit increments the window counter and sets its expiry as one
\* indivisible step: no state of the store shows a counter without an expiry, and a
\* recordRateLimit that returned has set the expiry.
C17_IncrAndExpireAreOneStep ==
    /\ \A k \in Keys : store[k] # Nil => expireAt[k] # NoTTL
    /\ \A c \in Callers : last[c] = "rec_returned" => ~rec[c].expireErr

\* C18: every recordRateLimit applies one INCR, which raises the key's counter by
\* exactly 1 whatever else runs in between; nothing but expiry lowers a counter, so
\* until a key can expire its counter is the number of INCRs applied to it, and N calls
\* that returned without a store fault have raised it by N.
C18_NoLostUpdate ==
    [][\A k \in Keys :
         /\ store'[k] # store[k] =>
               \/ store'[k] = Nil /\ now' > now
               \/ /\ ValueOf(store'[k]) = ValueOf(store[k]) + 1
                  /\ incrCount'[k] = incrCount[k] + 1
         /\ incrCount'[k] # incrCount[k] => ValueOf(store'[k]) = ValueOf(store[k]) + 1
         /\ now' < k[2] + MsPerSec => ValueOf(store'[k]) = incrCount'[k]
         /\ ( /\ faults' = 0
              /\ \A c \in Callers : pc'[c] = "rec_expire" => lk'[c].key # k )
            => okHits'[<<k, cfg["c1"].windowMs>>] = incrCount'[k]]_vars

\* C18 witness: both callers' recordRateLimit on one key returned and the key holds 2
C18_Witness ==
    \E k \in Keys :
        /\ store[k] = <<2>>
        /\ incrCount[k] = 2
        /\ \A c \in Callers : last[c] = "rec_returned"
        /\ now < k[2] + MsPerSec

\* ------------------------------------------------------------- window keys
Keyed(c) == last[c] \in {"recordRateLimit", "checkRateLimit"}

\* C19: for every now >= 0 and windowMs > 0 the window start computed at `now` lies in
\* (now - windowMs, now], i.e. windowStart <= now < windowStart + windowMs, and the
\* formula applied to windowStart gives windowStart again.
C19_WindowStartBrackets ==
    \A c \in Callers :
        Keyed(c) =>
            LET w == cfg[c].windowMs
                ws == lk[c].windowStart
            IN  /\ ws <= keyedAt[c]
                /\ keyedAt[c] < ws + w
                /\ getWindowKey(ws, w, cfg[c].keyPrefix).windowStart = ws

\* C19 witness: a key computed strictly inside a window that is not the first one
C19_Witness ==
    \E c \in Callers :
        /\ Keyed(c)
        /\ cfg[c].windowMs > 1
        /\ lk[c].windowStart > 0
        /\ keyedAt[c] > lk[c].windowStart

\* times t and u fall in one [windowStart, windowStart + windowMs) interval
SameInterval(t, u, windowMs) ==
    \E n \in 0..MaxNow :
        /\ n * windowMs <= t /\ t < n * windowMs + windowMs
        /\ n * windowMs <= u /\ u < n * windowMs + windowMs

\* C20: two key computations with the same keyPrefix and windowMs made at times of one
\* interval give the same key, whichever came first and whichever of recordRateLimit
\* and checkRateLimit made them.
C20_OneKeyPerInterval ==
    \A c, d \in Callers :
        ( /\ Keyed(c) /\ Keyed(d)
          /\ cfg[c].keyPrefix = cfg[d].keyPrefix
          /\ cfg[c].windowMs = cfg[d].windowMs
          /\ SameInterval(keyedAt[c], keyedAt[d], cfg[c].windowMs) )
        => lk[c].key = lk[d].key

\* C20 witness: a checkRateLimit and an earlier recordRateLimit, made at two
\* different times of one interval, hold the same key
C20_Witness ==
    /\ last["c1"] = "checkRateLimit" /\ last["c2"] = "recordRateLimit"
    /\ keyedAt["c1"] > keyedAt["c2"]
    /\ SameInterval(keyedAt["c1"], keyedAt["c2"], cfg["c1"].windowMs)
    /\ lk["c1"].key = lk["c2"].key
    /\ lk["c1"].windowStart > 0

\* ------------------------------------------------- the counter of one window
\* caller c1 reads the counter with checkRateLimit while caller c2 records hits, in
\* windows longer than one tick, with a store that may fail
CountInit == LimStart(2, WindowSizes, {1}, MaxOps + 1, 0)

CountNext ==
    \/ Tick
    \/ CheckBegin("c1") \/ CheckGet("c1")
    \/ RecordBegin("c2") \/ RecIncr("c2") \/ RecExpire("c2") \/ RecAbort("c2")

SpecCountInit == CountInit /\ RouteIdle /\ AgentIdle

SpecCount == SpecCountInit /\ [][CountNext]_vars

\* the window of key k under caller c's config is the current one at time t
CurrentWindow(k, c, t) == k[2] <= t /\ t < k[2] + cfg[c].windowMs

\* C21: while a key's window is current its counter never goes down and the expiry
\* recordRateLimit has set does not fall inside the window; a counter goes back to
\* zero only by expiry, after the window; and a checkRateLimit that reads inside the
\* window it read before reads a count at least as high.
C21_CountMonotoneInWindow ==
    [][/\ \A k \in Keys :
            /\ (CurrentWindow(k, "c1", now) /\ CurrentWindow(k, "c1", now'))
                  => /\ ValueOf(store'[k]) >= ValueOf(store[k])
                     /\ expireAt'[k] # NoTTL => expireAt'[k] >= k[2] + cfg["c1"].windowMs
            /\ (store[k] # Nil /\ store'[k] = Nil)
                  => /\ expireAt[k] # NoTTL /\ expireAt[k] <= now'
                     /\ now' >= k[2] + cfg["c1"].windowMs
       /\ \A c \in Callers :
            ( /\ CheckGet(c)
              /\ res[c].valid /\ ~res[c].failOpen /\ ~res'[c].failOpen
              /\ res[c].windowStart = lk[c].windowStart
              /\ now < lk[c].windowStart + cfg[c].windowMs )
            => res'[c].totalHits >= res[c].totalHits]_vars

\* C21 witness: a check read 1, and a later tick of the same window finds the second
\* check reading 2
C21_Witness ==
    /\ last["c1"] = "checked" /\ ~res["c1"].failOpen
    /\ res["c1"].totalHits = 2
    /\ lastIncrAt[cfg["c1"].keyPrefix] < now
    /\ now < res["c1"].windowStart + cfg["c1"].windowMs
    /\ incrCount[<<cfg["c1"].keyPrefix, res["c1"].windowStart>>] = 2

\* C22: with one config, a checkRateLimit that reads one hit more than the caller's
\* previous check read, below maxRequests, returns a remaining lower by exactly one,
\* and every check that reads maxRequests hits or more returns remaining = 0.
C22_RemainingCountsDown ==
    [][\A c \in Callers :
         (CheckGet(c) /\ ~res'[c].failOpen)
         => /\ res'[c].totalHits >= cfg[c].maxRequests => res'[c].remaining = 0
            /\ ( /\ res[c].valid /\ ~res[c].failOpen
                 /\ res[c].totalHits < cfg[c].maxRequests
                 /\ res'[c].totalHits = res[c].totalHits + 1 )
               => res'[c].remaining = res[c].remaining - 1
            /\ ( /\ res[c].valid /\ ~res[c].failOpen
                 /\ res[c].totalHits < cfg[c].maxRequests
                 /\ res'[c].totalHits > res[c].totalHits )
               => res'[c].remaining < res[c].remaining]_vars

\* C22 witness: three hits were counted against maxRequests 2 and the check that read
\* them returned remaining 0
C22_Witness ==
    /\ last["c1"] = "checked" /\ ~res["c1"].failOpen
    /\ res["c1"].totalHits = cfg["c1"].maxRequests + 1
    /\ res["c1"].remaining = 0

\* ------------------------------------------------------------ the agent loop
SpecAgentInit == LimIdle /\ RouteIdle /\ AgentInit

SpecAgent == SpecAgentInit /\ [][AgentNext]_vars

\* every model call and every tool call returns
SpecAgentFair ==
    /\ SpecAgent
    /\ WF_vars(ReasoningStep)
    /\ \A i \in Slots : WF_vars(ToolReturn(i))

\* the engine has requested tool calls in every step so far
AlwaysTools ==
    \A m \in DOMAIN context :
        context[m].role = "assistant" => context[m].parts # <<>>

\* C23: with step budget k the step counter and the number of model calls never
\* exceed k; an engine that requests a tool call in every step is at Done exactly when
\* k steps are made; and once k steps are made no model call and no tool call starts.
C23_BudgetForcesDone ==
    [][/\ stepCount' <= budget' /\ modelCalls' <= budget'
       /\ (AlwaysTools' /\ agent' = "Done") => stepCount' = budget'
       /\ (AlwaysTools' /\ stepCount' = budget') => agent' = "Done"
       /\ stepCount = budget
             => /\ agent = "Done"
                /\ modelCalls' = modelCalls /\ toolStarts' = toolStarts]_vars

\* C23 witness: the engine asked for tools in each of MaxBudget steps and the loop is
\* at Done with as many model calls
C23_Witness ==
    /\ agent = "Done" /\ AlwaysTools
    /\ budget = MaxBudget
    /\ stepCount = budget /\ modelCalls = budget
    /\ toolStarts >= budget

\* C24: when every model call and every tool call returns, the loop reaches Done or
\* Aborted, whatever the engine requests in each step.
C24_LoopTerminates == <>(agent \in {"Done", "Aborted"})

\* C24 witness: after a step with tool calls the engine answered with text and the
\* loop is at Done before its budget
C24_Witness ==
    /\ agent = "Done"
    /\ stepCount = 2 /\ stepCount < budget
    /\ context[Len(context)] = AssistantText

\* message m answers message c: one output per requested tool invocation, in order
Answers(m, c) ==
    /\ m.role = "tool"
    /\ DOMAIN m.parts = DOMAIN c.parts
    /\ \A i \in DOMAIN m.parts :
          /\ m.parts[i].tool = c.parts[i].tool
          /\ m.parts[i].state \in {"result", "error"}

\* C25: Reasoning goes to Done on a text-only turn and to ToolCall on a turn with tool
\* invocations; ToolCall goes back to Reasoning (or to Done at the budget) with the
\* outputs of all the turn's invocations appended to the context, so that every
\* Reasoning step finds each earlier request followed by its outputs; Done and Aborted
\* are left by no step, and no model call or tool invocation starts in them.
C25_LoopTransitions ==
    [][/\ agent = "Reasoning" =>
            /\ agent' \in {"Reasoning", "ToolCall", "Done", "Aborted"}
            /\ agent' = "Done" => context' = Append(context, AssistantText)
            /\ agent' = "ToolCall" =>
                  /\ \E ts \in ToolLists : context' = Append(context, AssistantCalls(ts))
                  /\ DOMAIN calls' = DOMAIN context'[Len(context')].parts
                  /\ \A i \in DOMAIN calls' : calls'[i].state = "running"
            /\ (Len(context') > Len(context) /\ context'[Len(context')].parts # <<>>)
                  => agent' = "ToolCall"
       /\ agent = "ToolCall" =>
            /\ agent' \in {"ToolCall", "Reasoning", "Done", "Aborted"}
            /\ agent' \in {"Reasoning", "Done"} =>
                  /\ Len(context') = Len(context) + 1
                  /\ Answers(context'[Len(context')], context[Len(context)])
            /\ agent' = "Reasoning" => ~stepCountIs(budget, stepCount')
       /\ agent' = "Reasoning" =>
            \A m \in DOMAIN context' :
                (context'[m].role = "assistant" /\ context'[m].parts # <<>>)
                => /\ m < Len(context')
                   /\ Answers(context'[m + 1], context'[m])
       /\ agent \in {"Done", "Aborted"} =>
            /\ agent' = agent /\ context' = context
            /\ modelCalls' = modelCalls /\ toolStarts' = toolStarts]_vars

\* C25 witness: a turn with two tool invocations is over, both outputs are in the
\* context and the loop is back at Reasoning
C25_Witness ==
    /\ agent = "Reasoning"
    /\ Len(context) = 3
    /\ Len(context[3].parts) = 2
    /\ Answers(context[3], context[2])

\* ---------------------------------------------------------------- scrapePages
\* one scrapePages call and one searchWeb call of a loop that can be cancelled
SpecScrapeInit == LimIdle /\ RouteIdle /\ AgentIdle

SpecScrape == SpecScrapeInit /\ [][ScrapeNext]_vars

\* C26: when the cancellation signal fires, the scrapePages fetches in flight are
\* aborted like the request of searchWeb, and the outcomes of the fetches that had
\* settled stay as they were.
C26_SignalAbortsFetches ==
    [][(~aborted /\ aborted') =>
         /\ search' # "inflight"
         /\ \A i \in DOMAIN fetch' : fetch'[i].state # "inflight"
         /\ \A i \in DOMAIN fetch : fetch[i].state = "settled" => fetch'[i] = fetch[i]
         /\ out' = out]_vars

\* C27: scrapePages returns one entry per requested url, entry i being urls[i] with the
\* outcome of the fetch of urls[i], whatever the order in which the fetches settled and
\* whichever of them failed; when exactly one fetch failed, the other entries are
\* successes and the batch-level success is false.
C27_OneEntryPerUrlInOrder ==
    crawl = "resolved" =>
        /\ out.kind = "returned"
        /\ DOMAIN out.results = DOMAIN urls
        /\ \A i \in DOMAIN urls :
              /\ out.results[i].url = urls[i]
              /\ out.results[i].result = fetch[i].result
        /\ \A i \in DOMAIN urls :
              ( /\ ~fetch[i].result.success
                /\ \A j \in DOMAIN urls \ {i} : fetch[j].result.success )
              => /\ out.success = FALSE
                 /\ ~out.results[i].result.success
                 /\ \A j \in DOMAIN urls \ {i} : out.results[j].result.success

\* C27 witness: of three urls the second failed, the fetches settled in the order
\* 3, 1, 2 and the result lists them as submitted
C27_Witness ==
    /\ crawl = "resolved" /\ out.kind = "returned"
    /\ urls = <<"b.test", "a.test", "b.test">>
    /\ order = <<3, 1, 2>>
    /\ ~out.results[2].result.success
    /\ out.results[1].result.success /\ out.results[3].result.success
    /\ out.success = FALSE

\* C28: when the aggregation throws, scrapePages raises nothing: it returns success =
\* false with one entry per requested url in input order, each a failure that carries
\* the message of what was caught.
C28_ThrowGivesUniformFailure ==
    crawl = "threw" =>
        /\ out.kind = "returned"
        /\ out.success = FALSE
        /\ DOMAIN out.results = DOMAIN urls
        /\ \A i \in DOMAIN urls :
              /\ out.results[i].url = urls[i]
              /\ out.results[i].result.success = FALSE
              /\ out.results[i].result.error
                    \in {ErrorMessage(error, "Unknown error occurred") : error \in Thrown}

\* C29: in every value scrapePages returns, success is true exactly when every entry
\* of results is a success.
C29_BatchSuccessIffAll ==
    out.kind = "returned" =>
        (out.success = TRUE
            <=> \A i \in DOMAIN out.results : out.results[i].result.success = TRUE)

\* C29 witness: a batch with an html and a pdf page, all fetched, was returned with
\* success true
C29_Witness ==
    /\ out.kind = "returned" /\ out.success = TRUE
    /\ Len(out.results) >= 2
    /\ out.results[1].result.sourceType = "html"
    /\ out.results[2].result.sourceType = "pdf"

\* C30: every value scrapePages returns has a sources list with one entry per entry of
\* results, with the same url at the same place, whose content and sourceType are
\* null when that url's outcome failed and its data and sourceType otherwise.
C30_SourcesMirrorResults ==
    out.kind = "returned" =>
        /\ DOMAIN out.sources = DOMAIN out.results
        /\ \A i \in DOMAIN out.results :
              LET result == out.results[i].result
                  source == out.sources[i]
              IN  /\ source.url = out.results[i].url
                  /\ (source.content = Null) <=> ~result.success
                  /\ (source.sourceType = Null) <=> ~result.success
                  /\ result.success => /\ source.content = result.data
                                       /\ source.sourceType = result.sourceType

\* C30 witness: a returned batch with a fetched page and a failed one, the failed one
\* with null content and sourceType
C30_Witness ==
    /\ out.kind = "returned" /\ crawl = "resolved"
    /\ Len(out.sources) = 2
    /\ out.sources[1].content = Markdown(urls[1]) /\ out.sources[1].sourceType = "pdf"
    /\ out.sources[2].content = Null /\ out.sources[2].sourceType = Null

\* C31: a scrapePages request with an empty url list is rejected by the input schema:
\* execute is not called for it, so no crawl and no fetch is started.
C31_EmptyListRejected ==
    /\ crawl # "none" => Len(urls) >= 1
    /\ (urls = <<>> /\ out # Nothing) =>
          /\ out.kind = "rejected"
          /\ crawl = "none" /\ fetch = <<>> /\ order = <<>>

\* C31 witness: the engine asked for scrapePages with no url and was refused
C31_Witness == urls = <<>> /\ out.kind = "rejected" /\ crawl = "none"

\* C32: no step of checkRateLimit and no step of retry() changes a counter or an
\* expiry, so a denied or retried check consumes no quota; and what a check returns
\* is fixed by the counter it reads and its config: a check that reads, in the window
\* of the caller's previous check, the count that check read returns the same allowed,
\* remaining, resetTime and totalHits.
C32_ChecksOnlyRead ==
    [][\A c \in Callers :
         /\ (CheckBegin(c) \/ CheckGet(c) \/ RetryBegin(c) \/ RetryWake(c) \/ RetryGet(c))
               => /\ store' = store /\ expireAt' = expireAt
                  /\ incrCount' = incrCount /\ okHits' = okHits
         /\ (CheckGet(c) /\ ~res'[c].failOpen)
               => /\ res'[c].totalHits = ValueOf(store[lk[c].key])
                  /\ ( /\ res[c].valid /\ ~res[c].failOpen
                       /\ res[c].windowStart = lk[c].windowStart
                       /\ res[c].totalHits = ValueOf(store[lk[c].key]) )
                     => /\ res'[c].allowed = res[c].allowed
                        /\ res'[c].remaining = res[c].remaining
                        /\ res'[c].resetTime = res[c].resetTime
                        /\ res'[c].totalHits = res[c].totalHits]_vars

\* C32 witness: a check was denied and its retry gave up, and the window's counter
\* still holds the one hit that was recorded
C32_Witness ==
    /\ last["c1"] = "retry_false"
    /\ \E k \in Keys : store[k] = <<1>> /\ incrCount[k] = 1 /\ k[2] + ShortWindow > now

\* ------------------------------------------------------------- two limiters
\* caller c1 checks with one limiter while caller c2 records hits with another one,
\* which differs in keyPrefix or in windowMs
SpecMixedInit ==
    /\ LimStartWith({f \in [Callers -> {[LimiterConfig(2, w, 1) EXCEPT !.keyPrefix = p] :
                                          w \in WindowSizes, p \in Prefixes}] :
                        \/ f["c1"].keyPrefix # f["c2"].keyPrefix
                        \/ f["c1"].windowMs # f["c2"].windowMs},
                    MaxOps, 0)
    /\ RouteIdle /\ AgentIdle

SpecMixed == SpecMixedInit /\ [][CountNext]_vars

\* C33: hits recorded with one (keyPrefix, windowMs) are not seen by the checks of a
\* limiter with another keyPrefix or another windowMs: while only the other limiter
\* records, every check reads totalHits = 0.
C33_LimitersAreSeparate ==
    [][(CheckGet("c1") /\ ~res'["c1"].failOpen) => res'["c1"].totalHits = 0]_vars

\* ------------------------------------------------------ requests one at a time
\* a POST is sent only when no other POST is between its arrival and its request log
SeqNext ==
    \/ ClockTick
    \/ \E r \in Requests :
          \/ /\ \A q \in Requests \ {r} : rpc[q] \notin {"auth", "getUser", "count", "insert"}
             /\ Arrive(r)
          \/ Auth(r) \/ GetUser(r) \/ CountRequests(r) \/ InsertLog(r)

SpecSeq == SpecRouteInit /\ [][SeqNext]_vars

\* the UTC day [00:00, next 00:00) of an instant
DayOf(t) == t \div SlotsPerDay

\* C34: with requests sent one at a time, a non-admin user's request gets 429 exactly
\* when L requests of that user were admitted before it with their logs in the current
\* UTC day, so the first L of a day are admitted and the later ones refused; the log a
\* request writes counts once, for the UTC day containing its creation time and for
\* its own user, and for no other day and no other user.
C34_FirstLPerDay ==
    [][\A r \in Requests :
         /\ CountRequests(r) =>
               LET earlier == {q \in Requests \ {r} :
                                  /\ Admitted(q) /\ ruser[q] = ruser[r]
                                  /\ \E i \in 1..Len(hits[q]) :
                                        DayOf(hits[q][i].createdAt) = DayOf(clock)}
               IN  /\ outcome'[r] = "429" <=> Cardinality(earlier) >= dailyLimit
                   /\ outcome'[r] # "429" => rpc'[r] = "insert"
         /\ InsertLog(r) =>
               \A u \in Users : \A d \in 0..MaxClock :
                  getDailyRequestCount(requestLogs', u.id, d) =
                     getDailyRequestCount(requestLogs, u.id, d)
                        + (IF u = ruser[r] /\ DayOf(d) = DayOf(clock) THEN 1 ELSE 0)]_vars

\* the limit is 1: the user's second request of the day was refused while an admin's
\* request of the same day is logged as well
C34_Witness ==
    /\ dailyLimit = 1
    /\ \E r \in Requests, q \in Requests :
          /\ outcome[r] = "429" /\ ruser[r] = ruser[q] /\ Len(hits[q]) = 1
          /\ DayOf(hits[q][1].createdAt) = DayOf(clock)

\* C35: a chat is never changed on behalf of, nor returned to, a user who does not own
\* it: a request that wrote to the chat tables is the owner's, an upsertChat that was
\* refused has written nothing, and getChat for another user returns null.
C35_ChatsArePrivate ==
    /\ \A r \in Requests :
          /\ touched[r] => chats[rin[r].chatId].userId = ruser[r].id
          /\ outcome[r] = "error" => ~touched[r]
    /\ \A k \in ChatIds : \A u \in Users :
          LET found == getChat(chats, messages, k, u.id)
          IN  /\ (chats[k] # NoChat /\ chats[k].userId # u.id) => found.isNull
              /\ ~found.isNull => found.userId = u.id

\* a user's upsertChat on another user's chat, which has messages, was refused; the
\* owner can read the chat and that user cannot
C35_Witness ==
    \E r \in Requests :
        LET k == rin[r].chatId
        IN  /\ outcome[r] = "error" /\ ~touched[r]
            /\ chats[k] # NoChat /\ chats[k].userId # ruser[r].id
            /\ getChat(chats, messages, k, ruser[r].id).isNull
            /\ Len(getChat(chats, messages, k, chats[k].userId).messages) >= 1

\* ------------------------------------------------- one upsertChat at a time
\* the POSTs interleave as they like, but an upsertChat call starts only when no other
\* call is between its find and its last insert
SoloNext ==
    \/ ClockTick
    \/ \E r \in Requests :
          \/ Arrive(r) \/ Auth(r) \/ GetUser(r) \/ CountRequests(r) \/ InsertLog(r)
          \/ /\ \A q \in Requests \ {r} :
                   rpc[q] \notin {"up_delete", "up_update", "up_insertChat", "up_msgs"}
             /\ UpFind(r)
          \/ UpDelete(r) \/ UpUpdate(r) \/ UpInsertChat(r) \/ UpMessages(r)
          \/ StartStream(r) \/ Reason(r) \/ ToolsReturn(r) \/ Abort(r)

SpecSolo == SpecRouteInit /\ [][SoloNext]_vars

C37_ConcurrentUpsertsSerialise ==
    \A k \in ChatIds :
        (\A q \in Requests :
            rpc[q] \notin {"up_find", "up_delete", "up_update", "up_insertChat", "up_msgs"})
        => /\ LET stored == SelectSeq(messages, LAMBDA m : m.chatId = k)
              IN  \/ stored = <<>>
                  \/ \E r \in Requests :
                        \/ stored = MessageRows(k, Incoming(r))
                        \/ stored = MessageRows(k, appendResponseMessages(Incoming(r),
                                                                        Response(r)))
           /\ \A r \in Requests :
                 (outcome[r] = "error" /\ rin[r].chatId = k)
                    => chats[k].userId # ruser[r].id

\* C38: a request with isNewChat = true has stored the chat with its incoming messages
\* before its loop starts, and they stay stored while the loop runs and after it ends
\* Aborted; once the loop has ended Done and onFinish has saved, the stored list is
\* the incoming messages followed by the response messages. (Stated for a chat no
\* other request writes to.)
C38_NewChatSavedFirst ==
    \A r \in Requests :
        rin[r].isNewChat /\ loop[r] # "none" =>
            LET k == rin[r].chatId
                stored == SelectSeq(messages, LAMBDA m : m.chatId = k)
            IN  /\ touched[r]
                /\ (\A q \in Requests \ {r} : ~touched[q]) =>
                      /\ chats[k] # NoChat /\ chats[k].userId = ruser[r].id
                      /\ loop[r] \in {"reasoning", "toolcall", "aborted"} =>
                            stored = MessageRows(k, Incoming(r))
                      /\ loop[r] = "aborted" => rpc[r] = "done" /\ up[r] = "none"
                      /\ (loop[r] = "done" /\ rpc[r] = "done") =>
                            stored = MessageRows(k, Incoming(r) \o Response(r))

\* one new chat's loop was aborted after a tool call and its incoming message is still
\* stored; the other request was refused
C38_Witness ==
    \E r \in Requests :
        /\ rin[r].isNewChat /\ loop[r] = "aborted" /\ steps[r] >= 1
        /\ \A q \in Requests \ {r} : ~touched[q] /\ rpc[q] = "done"
        /\ getChat(chats, messages, rin[r].chatId, ruser[r].id).messages = Incoming(r)

\* ---------------------------------------------------------- message lists
SpecNorm == SpecScrapeInit /\ [][NormReceive \/ NormFinish]_vars

\* C39: what normalizeMessage returns has an array as parts, never null or undefined;
\* a message whose parts is a non-empty array is returned unchanged, any other
\* message changes in parts only; normalizing the result again changes nothing. So
\* every message of a list given to upsertChat, incoming or from the model, has an
\* array as parts.
C39_PartsNeverNull ==
    /\ Len(handed) = Len(rawMessages)
    /\ \A i \in DOMAIN handed :
          LET raw == rawMessages[i]
              m == handed[i]
          IN  /\ m.parts.type = "array"
              /\ (raw.parts.type = "array" /\ raw.parts.items # <<>>) => m = raw
              /\ [m EXCEPT !.parts = raw.parts] = raw
              /\ normalizeMessage(m) = m

\* a list was saved whose incoming message had parts null and blank content and got
\* empty parts, and whose response message had no parts and got them from its content
C39_Witness ==
    /\ Len(handed) = 2
    /\ rawMessages[1].parts.type = "null" /\ rawMessages[1].content.type = "string"
    /\ handed[1].parts = [type |-> "array", items |-> <<>>]
    /\ rawMessages[2].parts.type = "undefined"
    /\ handed[2].parts.type = "array" /\ Len(handed[2].parts.items) = 1
    /\ handed[2].parts.items[1].type = "text"

====
